---- MODULE Spec2Model ----
(***************************************************************************)
(* Hook-event correlation and notification reconciliation of the          *)
(* telegram-claude-relay: the Unix socket server's hook dispatch, the      *)
(* proactive PermissionMonitor and the MessageTracker of the webhook       *)
(* handler, modelled as coroutines of one asyncio event loop.              *)
(*                                                                         *)
(* Scheduling.  asyncio runs one coroutine at a time, from a FIFO ready    *)
(* queue, until it reaches its next await.  `ready` is that queue; every   *)
(* action below that runs program code is one such step of the coroutine  *)
(* at the head of the queue.  The environment (hook connections, pane      *)
(* reads, Telegram calls, timers, the clock) acts by appending a coroutine *)
(* to the queue or by advancing `now`.                                     *)
(***************************************************************************)
EXTENDS Integers, Sequences, FiniteSets, TLC

\* ---- bounds of the model ----
MaxPre == 3        \* PreToolUse hook events delivered
MaxNotif == 2      \* Notification hook events delivered
MaxEvents == 3     \* hook events delivered to the permission flow in all
MaxChecks == 2     \* polls one monitor can make before its window has elapsed
MaxTime == 450     \* the clock stops here
MaxStarted == 2    \* ToolStarted notifications handed to the MessageTracker
MaxFinished == 1   \* ToolFinished notifications handed to the MessageTracker
MaxParts == 2      \* parts an oversized notification is split into

\* ---- program constants ----
MONITORING_DURATION == 5
CONTEXT_MAX_AGE == 300
DIALOG_MAX_AGE == 300
RECENT_TOOL_WINDOW == 60
VALID_OPTIONS == 3
TickSeconds == 150

\* ---- inputs ----
Sessions == {"s1"}
\* tools the PreToolUse branch stores a context for (subset of the list)
ListedTools == {"Bash", "Edit"}
Invocations ==
  { [tool |-> "Bash", input |-> "ls"],
    [tool |-> "Bash", input |-> "rm"],
    [tool |-> "mcp", input |-> "ls"] }
\* what _parse_permission_options finds in the pane: no list, a 2-option
\* list, the usual 3-option list
PaneOptions == {0, 2, 3}
\* Notification messages by the substrings the classifier looks for and by
\* their last word
Messages ==
  { [permission |-> TRUE, waiting |-> FALSE, lastword |-> "Bash"],
    [permission |-> FALSE, waiting |-> TRUE, lastword |-> "input"],
    [permission |-> FALSE, waiting |-> FALSE, lastword |-> "done"] }

NoTime == -1
NoRec == [context_hash |-> <<>>, timestamp |-> NoTime, user_responded |-> FALSE,
          tool_name |-> "", shown |-> FALSE]
EmptyCtx == [tool_use |-> "", tool_input |-> "", timestamp |-> NoTime,
             permission_options |-> 0, empty |-> TRUE]

PreIds == 1..MaxPre
NotifIds == 1..MaxNotif
OpIds == 1..(MaxStarted + MaxFinished)
\* tools of the ToolStarted / ToolFinished hooks: one whose notices are tool
\* messages and one whose completion notice is silenced
OpTools == {"Bash", "Read"}
NoOp == [message_id |-> -1, content |-> <<>>, timestamp |-> NoTime]

VARIABLES
  now,                  \* time.time(), seconds
  configured,           \* PermissionMonitor.configure ran at startup
  recent_tool_usage,    \* session -> timestamp
  recent_tool_context,  \* session -> id of the context dict stored, 0 = none
  ctxs,                 \* the context dicts, by id (dicts are shared by reference)
  monitoring_tasks,     \* session -> id of the registered monitor task, 0 = none
  simplified_dialogs,   \* session -> record
  sm,                   \* PreToolUse connection / start_monitoring coroutines
  mon,                  \* _monitor_session tasks
  nh,                   \* Notification connection handlers
  ready,                \* the event loop's ready queue
  waiters,              \* monitor id -> coroutines suspended in "await task"
  outbox,               \* what the chat received: [preview, full]
  pending_tool_operations,  \* MessageTracker: <<session, tool>> -> entry
  th,                   \* send_hook_notification tasks (pre_tool / post_tool)
  chat,                 \* Telegram: message_id -> text now shown
  conn,                 \* connections to the socket: the client and its handle_client
  store,                \* the two capacity-bounded maps as ordered item lists
  down,                 \* run_application's shutdown: its place, the listener
  boot,                 \* engine instances for one bind path, and the socket file
  sweeps,               \* wake-ups of _run_periodic_cleanup so far
  hashed,               \* two context dicts and the hashes computed for them
  hook,                 \* process_hook_event's cwd filter: settings, last event
  fan,                  \* _send_to_telegram for several users
  cb,                   \* permission_dialogs and the button callbacks
  request_buckets,      \* RateLimiter: user -> bucket
  rate_call             \* the last check_rate_limit call and its result

vars == <<now, configured, recent_tool_usage, recent_tool_context, ctxs,
          monitoring_tasks, simplified_dialogs, sm, mon, nh, ready, waiters,
          outbox, pending_tool_operations, th, chat, conn, store, down,
          boot, sweeps, hashed, hook, fan, cb, request_buckets, rate_call>>

\* the state of the permission flow and the state of the MessageTracker
permVars == <<configured, recent_tool_usage, recent_tool_context, ctxs,
              monitoring_tasks, simplified_dialogs, sm, mon, nh, waiters,
              outbox>>
opsVars == <<pending_tool_operations, th, chat>>
\* the socket boundary
ipcVars == <<conn>>
\* the state of the parts looked at on their own
extVars == <<sweeps, hashed, hook, fan, cb, request_buckets, rate_call>>
\* what neither the permission flow nor the MessageTracker touches
auxVars == <<ipcVars, store, down, boot, extVars>>

\* ---- pure functions ----

\* json.dumps({"tool":..., "input":...}, sort_keys=True) hashed with SHA-256:
\* a function of the tool name and the tool input only
CreatePermissionContextHash(context) ==
  <<context.tool_use, context.tool_input>>

\* ConversationMonitor._get_permission_options: the number of buttons
GetPermissionOptions(context) ==
  IF context.empty THEN 3
  ELSE IF context.permission_options > 0 THEN context.permission_options
  ELSE 1

\* ConversationWebhookHandler._send_permission_dialog's validity test
DialogIsValid(options) == options = VALID_OPTIONS

IsPermissionDialog(s, message) ==
  IF message.waiting THEN FALSE
  ELSE IF message.permission THEN TRUE
  ELSE IF recent_tool_usage[s] = NoTime THEN FALSE
  ELSE now - recent_tool_usage[s] <= RECENT_TOOL_WINDOW

\* ---- the ready queue ----
InReady(id) == \E i \in 1..Len(ready) : ready[i] = id
IsHead(id) == ready # <<>> /\ Head(ready) = id
MonId(k) == <<"mon", k>>
SmId(j) == <<"sm", j>>
NhId(n) == <<"nh", n>>

TaskDone(k) == mon[k].pc = "done"

\* ---- helpers over the maps ----

\* UnixSocketServer._limit_dict_size: while the map holds more than max_size
\* entries the oldest by timestamp are removed
MAX_DICT_SIZE == 1000
LimitUsage(usage) ==
  LET present == {s \in Sessions : usage[s] # NoTime}
      excess == Cardinality(present) - MAX_DICT_SIZE
      older(s) == {t \in present : usage[t] < usage[s]}
  IN  IF excess <= 0 THEN usage
      ELSE [s \in Sessions |->
              IF s \in present /\ Cardinality(older(s)) < excess
              THEN NoTime ELSE usage[s]]
LimitContext(rtc, cs) ==
  LET present == {s \in Sessions : rtc[s] # 0}
      excess == Cardinality(present) - MAX_DICT_SIZE
      older(s) == {t \in present : cs[rtc[t]].timestamp < cs[rtc[s]].timestamp}
  IN  IF excess <= 0 THEN rtc
      ELSE [s \in Sessions |->
              IF s \in present /\ Cardinality(older(s)) < excess
              THEN 0 ELSE rtc[s]]

\* UnixSocketServer._cleanup_old_tool_usage
CleanupUsage(usage) ==
  [s \in Sessions |->
     IF usage[s] # NoTime /\ now - usage[s] > CONTEXT_MAX_AGE
     THEN NoTime ELSE usage[s]]
CleanupContext(rtc) ==
  [s \in Sessions |->
     IF rtc[s] # 0 /\ now - ctxs[rtc[s]].timestamp > CONTEXT_MAX_AGE
     THEN 0 ELSE rtc[s]]

\* PermissionMonitor.cleanup_old_sessions
CleanupTasks(tasks) ==
  [s \in Sessions |-> IF tasks[s] # 0 /\ TaskDone(tasks[s]) THEN 0 ELSE tasks[s]]
CleanupDialogs(dialogs) ==
  [s \in Sessions |->
     IF dialogs[s] # NoRec /\ now - dialogs[s].timestamp > DIALOG_MAX_AGE
     THEN NoRec ELSE dialogs[s]]

\* task.cancel(): the task will see CancelledError at its current await; a
\* task suspended on I/O is made runnable
CancelTask(m, k) == [m EXCEPT ![k].cancel = TRUE]
CancelQueue(q, k) == IF \E i \in 1..Len(q) : q[i] = MonId(k) THEN q ELSE Append(q, MonId(k))

\* stop_monitoring has to cancel and await the registered task
StopNeedsAwait(s) ==
  monitoring_tasks[s] # 0 /\ ~TaskDone(monitoring_tasks[s])

\* detected and sends are not program state: they remember that the task
\* reached the detection branch and how many previews it issued
NewMon == [pc |-> "none", cancel |-> FALSE, check_count |-> 0,
           start_time |-> NoTime, opts |-> 0, res |-> "none",
           detected |-> FALSE, sends |-> 0]
NewSm == [pc |-> "none", session |-> "s1", inv |-> [tool |-> "", input |-> ""]]
\* sends, outcome, matched, hadshown, fp and before are not program state:
\* they remember what the handler found and did (before: the monitor tasks
\* that existed when the notice arrived)
NewNh == [pc |-> "none", session |-> "s1",
          message |-> [permission |-> FALSE, waiting |-> FALSE, lastword |-> ""],
          ctx |-> 0, local |-> EmptyCtx, info |-> NoRec, opts |-> 0,
          res |-> "none", sends |-> 0, outcome |-> "none", matched |-> FALSE,
          hadshown |-> FALSE, fp |-> <<>>, before |-> {}]

\* ---- environment ----

\* no coroutine is in the middle of its work
Quiescent ==
  /\ ready = <<>>
  /\ \A j \in PreIds : sm[j].pc \in {"none", "done"} /\ mon[j].pc \in {"none", "done"}
  /\ \A n \in NotifIds : nh[n].pc \in {"none", "done"}

\* time passes between bursts of activity: a step of the clock is far longer
\* than a handler, a monitoring window or a Telegram call
Tick ==
  /\ Quiescent
  /\ now + TickSeconds <= MaxTime
  /\ now' = now + TickSeconds
  /\ UNCHANGED <<configured, recent_tool_usage, recent_tool_context, ctxs,
                 monitoring_tasks, simplified_dialogs, sm, mon, nh, ready,
                 waiters, outbox>>
  /\ UNCHANGED <<opsVars, auxVars>>

\* the hook events delivered so far
Started == {j \in PreIds : sm[j].pc # "none"}
Noticed == {n \in NotifIds : nh[n].pc # "none"}

\* a PreToolUse payload is handed to its branch of process_hook_event
ArrivePreToolUse(s, inv) ==
  /\ Cardinality(Started) + Cardinality(Noticed) < MaxEvents
  /\ \E j \in PreIds :
       /\ sm[j].pc = "none"
       /\ \A i \in PreIds : i < j => sm[i].pc # "none"
       /\ sm' = [sm EXCEPT ![j] = [pc |-> "arrived", session |-> s, inv |-> inv]]
       /\ ready' = Append(ready, SmId(j))
  /\ UNCHANGED <<now, configured, recent_tool_usage, recent_tool_context,
                 ctxs, monitoring_tasks, simplified_dialogs, mon, nh, waiters,
                 outbox>>

\* a PreToolUse hook connects and its payload is read
HookPreToolUse(s, inv) ==
  /\ ArrivePreToolUse(s, inv)
  /\ UNCHANGED <<opsVars, auxVars>>

\* a Notification payload is handed to its branch of process_hook_event
ArriveNotification(s, m) ==
  /\ Cardinality(Started) + Cardinality(Noticed) < MaxEvents
  /\ \E n \in NotifIds :
       /\ nh[n].pc = "none"
       /\ \A i \in NotifIds : i < n => nh[i].pc # "none"
       /\ nh' = [nh EXCEPT ![n] = [NewNh EXCEPT !.pc = "arrived",
                                   !.session = s, !.message = m]]
       /\ ready' = Append(ready, NhId(n))
  /\ UNCHANGED <<now, configured, recent_tool_usage, recent_tool_context,
                 ctxs, monitoring_tasks, simplified_dialogs, sm, mon, waiters,
                 outbox>>

\* a Notification hook connects and its payload is read
HookNotification(s, m) ==
  /\ ArriveNotification(s, m)
  /\ UNCHANGED <<opsVars, auxVars>>

\* a Notification hook connects after a burst of PreToolUse hooks: the one
\* notice of a run, at any point after the last of them was received
NoticeArrives(s, m) ==
  /\ Cardinality(Started) = MaxPre
  /\ nh[1].pc = "none"
  /\ nh' = [nh EXCEPT ![1] = [NewNh EXCEPT !.pc = "arrived",
                              !.session = s, !.message = m,
                              !.before = {k \in PreIds : mon[k].pc # "none"}]]
  /\ ready' = Append(ready, NhId(1))
  /\ UNCHANGED <<now, configured, recent_tool_usage, recent_tool_context,
                 ctxs, monitoring_tasks, simplified_dialogs, sm, mon, waiters,
                 outbox>>
  /\ UNCHANGED <<opsVars, auxVars>>

\* ---- PreToolUse: process_hook_event and start_monitoring ----

\* the task finished: every coroutine awaiting it becomes runnable, in the
\* order in which they started to wait
FinishQueue(k) == Tail(ready) \o waiters[k]

\* process_hook_event, PreToolUse branch, as far as the permission flow goes:
\* usage timestamp, tool context, and the start_monitoring background task
ProcessPreToolUse(j) ==
  /\ IsHead(SmId(j))
  /\ sm[j].pc = "arrived"
  /\ LET s == sm[j].session
         inv == sm[j].inv
         listed == inv.tool \in ListedTools
         cs == [ctxs EXCEPT ![j] = [tool_use |-> inv.tool, tool_input |-> inv.input,
                                    timestamp |-> now, permission_options |-> 0,
                                    empty |-> FALSE]]
     IN  /\ recent_tool_usage' = LimitUsage([recent_tool_usage EXCEPT ![s] = now])
         /\ ctxs' = IF listed THEN cs ELSE ctxs
         /\ recent_tool_context' =
              IF listed THEN LimitContext([recent_tool_context EXCEPT ![s] = j], cs)
              ELSE recent_tool_context
         /\ sm' = [sm EXCEPT ![j].pc = IF listed THEN "created" ELSE "done"]
         /\ ready' = IF listed THEN Append(Tail(ready), SmId(j)) ELSE Tail(ready)
  /\ UNCHANGED <<now, configured, monitoring_tasks, simplified_dialogs,
                 mon, nh, waiters, outbox>>
  /\ UNCHANGED <<opsVars, auxVars>>

\* start_monitoring after stop_monitoring returned: forget the registered
\* task and the record, create and register the new monitor task
StartMonitoringCreate(j) ==
  LET s == sm[j].session
  IN  /\ simplified_dialogs' = [simplified_dialogs EXCEPT ![s] = NoRec]
      /\ mon' = [mon EXCEPT ![j] = [NewMon EXCEPT !.pc = "created"]]
      /\ monitoring_tasks' = [monitoring_tasks EXCEPT ![s] = j]
      /\ sm' = [sm EXCEPT ![j].pc = "done"]
      /\ ready' = Append(Tail(ready), MonId(j))
      /\ UNCHANGED waiters

\* start_monitoring up to its first suspension
StartMonitoring(j) ==
  /\ IsHead(SmId(j))
  /\ sm[j].pc = "created"
  /\ LET s == sm[j].session
         k == monitoring_tasks[s]
     IN  IF StopNeedsAwait(s)
         THEN /\ mon' = CancelTask(mon, k)
              /\ ready' = CancelQueue(Tail(ready), k)
              /\ waiters' = [waiters EXCEPT ![k] = Append(@, SmId(j))]
              /\ sm' = [sm EXCEPT ![j].pc = "await"]
              /\ UNCHANGED <<monitoring_tasks, simplified_dialogs>>
         ELSE StartMonitoringCreate(j)
  /\ UNCHANGED <<now, configured, recent_tool_usage, recent_tool_context,
                 ctxs, nh, outbox>>
  /\ UNCHANGED <<opsVars, auxVars>>

\* start_monitoring resumed when the cancelled task has ended
StartMonitoringResume(j) ==
  /\ IsHead(SmId(j))
  /\ sm[j].pc = "await"
  /\ StartMonitoringCreate(j)
  /\ UNCHANGED <<now, configured, recent_tool_usage, recent_tool_context,
                 ctxs, nh, outbox>>
  /\ UNCHANGED <<opsVars, auxVars>>

\* ---- _monitor_session ----

\* one more iteration of the polling loop: read the pane, or, with no server
\* configured, get "" at once and go to sleep
MonitorPoll(k, started) ==
  /\ mon' = [mon EXCEPT ![k].pc = IF configured THEN "read" ELSE "sleep",
                        ![k].check_count = @ + 1,
                        ![k].start_time = started]
  /\ ready' = Tail(ready)
  /\ UNCHANGED <<monitoring_tasks, simplified_dialogs, waiters, outbox>>

\* the finally clause, and the end of the task
MonitorExit(k, dialogs, box, detected) ==
  /\ mon' = [mon EXCEPT ![k].pc = "done", ![k].detected = detected]
  /\ monitoring_tasks' = [monitoring_tasks EXCEPT ![sm[k].session] = 0]
  /\ simplified_dialogs' = dialogs
  /\ outbox' = box
  /\ ready' = FinishQueue(k)
  /\ waiters' = [waiters EXCEPT ![k] = <<>>]

\* the record the monitor stores after _send_simplified_permission returned;
\* `shown` is not a field of the program: it remembers whether the preview
\* reached the chat
MonitorRecord(k, shown) ==
  [context_hash |-> CreatePermissionContextHash(ctxs[k]),
   timestamp |-> now, user_responded |-> FALSE,
   tool_name |-> ctxs[k].tool_use, shown |-> shown]

\* first step of the task
MonitorStart(k) ==
  /\ IsHead(MonId(k))
  /\ mon[k].pc = "created"
  /\ IF mon[k].cancel
     THEN \* cancelled before it ever ran: the coroutine body is not entered
          /\ mon' = [mon EXCEPT ![k].pc = "done"]
          /\ ready' = FinishQueue(k)
          /\ waiters' = [waiters EXCEPT ![k] = <<>>]
          /\ UNCHANGED <<monitoring_tasks, simplified_dialogs, outbox>>
     ELSE MonitorPoll(k, now)
  /\ UNCHANGED <<now, configured, recent_tool_usage, recent_tool_context,
                 ctxs, sm, nh>>
  /\ UNCHANGED <<opsVars, auxVars>>

\* a task that, cancelled after its preview send was issued, still stores the
\* record before it ends
MonitorCancelledStoresRecord(k) ==
  /\ IsHead(MonId(k))
  /\ mon[k].pc \in {"read", "send", "sleep"}
  /\ mon[k].cancel
  /\ MonitorExit(k, IF mon[k].pc = "send"
                    THEN [simplified_dialogs EXCEPT
                            ![sm[k].session] = MonitorRecord(k, mon[k].res = "ok")]
                    ELSE simplified_dialogs,
                 outbox, mon[k].detected)
  /\ UNCHANGED <<now, configured, recent_tool_usage, recent_tool_context,
                 ctxs, sm, nh>>
  /\ UNCHANGED <<opsVars, auxVars>>

\* CancelledError raised at the await the task is suspended in
MonitorCancelled(k) ==
  /\ IsHead(MonId(k))
  /\ mon[k].pc \in {"read", "send", "sleep"}
  /\ mon[k].cancel
  /\ \E delivered \in BOOLEAN :
       \* a send cut off in flight may or may not have reached the chat
       /\ delivered => mon[k].pc = "send" /\ mon[k].res = "none"
       /\ MonitorExit(k, simplified_dialogs,
                      IF delivered THEN [outbox EXCEPT !.preview = @ + 1] ELSE outbox,
                      mon[k].detected)
  /\ UNCHANGED <<now, configured, recent_tool_usage, recent_tool_context,
                 ctxs, sm, nh>>
  /\ UNCHANGED <<opsVars, auxVars>>

\* the pane read returned
MonitorAfterRead(k) ==
  /\ IsHead(MonId(k))
  /\ mon[k].pc = "read"
  /\ ~mon[k].cancel
  /\ LET s == sm[k].session
     IN  IF mon[k].opts > 0 /\ simplified_dialogs[s] = NoRec
         THEN IF DialogIsValid(mon[k].opts)
              THEN \* _send_simplified_permission: bot.send_message is issued
                   /\ mon' = [mon EXCEPT ![k].pc = "send", ![k].res = "none",
                                         ![k].detected = TRUE, ![k].sends = @ + 1]
                   /\ ready' = Tail(ready)
                   /\ UNCHANGED <<monitoring_tasks, simplified_dialogs, waiters, outbox>>
              ELSE \* _send_permission_dialog returns without sending
                   MonitorExit(k, [simplified_dialogs EXCEPT
                                     ![s] = MonitorRecord(k, FALSE)], outbox, TRUE)
         ELSE /\ mon' = [mon EXCEPT ![k].pc = "sleep"]
              /\ ready' = Tail(ready)
              /\ UNCHANGED <<monitoring_tasks, simplified_dialogs, waiters, outbox>>
  /\ UNCHANGED <<now, configured, recent_tool_usage, recent_tool_context,
                 ctxs, sm, nh>>
  /\ UNCHANGED <<opsVars, auxVars>>

\* a monitor that stores the record and then waits for the next poll instead of
\* returning
MonitorAfterSendKeepsPolling(k) ==
  /\ IsHead(MonId(k))
  /\ mon[k].pc = "send"
  /\ ~mon[k].cancel
  /\ mon' = [mon EXCEPT ![k].pc = "sleep"]
  /\ simplified_dialogs' = [simplified_dialogs EXCEPT
                              ![sm[k].session] = MonitorRecord(k, mon[k].res = "ok")]
  /\ ready' = Tail(ready)
  /\ UNCHANGED <<monitoring_tasks, waiters, outbox>>
  /\ UNCHANGED <<now, configured, recent_tool_usage, recent_tool_context,
                 ctxs, sm, nh>>
  /\ UNCHANGED <<opsVars, auxVars>>

\* the preview send returned (a failure is logged and swallowed)
MonitorAfterSend(k) ==
  /\ IsHead(MonId(k))
  /\ mon[k].pc = "send"
  /\ ~mon[k].cancel
  /\ MonitorExit(k, [simplified_dialogs EXCEPT
                       ![sm[k].session] = MonitorRecord(k, mon[k].res = "ok")],
                 outbox, TRUE)
  /\ UNCHANGED <<now, configured, recent_tool_usage, recent_tool_context,
                 ctxs, sm, nh>>
  /\ UNCHANGED <<opsVars, auxVars>>

\* a polling loop whose condition never turns false
MonitorAfterSleepNoExpiry(k) ==
  /\ IsHead(MonId(k))
  /\ mon[k].pc = "sleep"
  /\ ~mon[k].cancel
  /\ IF mon[k].check_count < MaxChecks
     THEN MonitorPoll(k, mon[k].start_time)
     ELSE /\ ready' = Tail(ready)
          /\ UNCHANGED <<mon, monitoring_tasks, simplified_dialogs, waiters, outbox>>
  /\ UNCHANGED <<now, configured, recent_tool_usage, recent_tool_context,
                 ctxs, sm, nh>>
  /\ UNCHANGED <<opsVars, auxVars>>

\* asyncio.sleep(MONITORING_INTERVAL) returned: the loop condition
MonitorAfterSleep(k) ==
  /\ IsHead(MonId(k))
  /\ mon[k].pc = "sleep"
  /\ ~mon[k].cancel
  /\ IF now - mon[k].start_time < MONITORING_DURATION /\ mon[k].check_count < MaxChecks
     THEN MonitorPoll(k, mon[k].start_time)
     ELSE MonitorExit(k, simplified_dialogs, outbox, FALSE)
  /\ UNCHANGED <<now, configured, recent_tool_usage, recent_tool_context,
                 ctxs, sm, nh>>
  /\ UNCHANGED <<opsVars, auxVars>>

\* I/O of a monitor task completes
MonitorReadDone(k, p) ==
  /\ mon[k].pc = "read" /\ ~InReady(MonId(k))
  /\ mon' = [mon EXCEPT ![k].opts = p]
  /\ ready' = Append(ready, MonId(k))
  /\ UNCHANGED <<now, configured, recent_tool_usage, recent_tool_context,
                 ctxs, monitoring_tasks, simplified_dialogs, sm, nh, waiters,
                 outbox>>
  /\ UNCHANGED <<opsVars, auxVars>>

MonitorSendDone(k, r) ==
  /\ mon[k].pc = "send" /\ ~InReady(MonId(k))
  /\ mon' = [mon EXCEPT ![k].res = r]
  /\ outbox' = IF r = "ok" THEN [outbox EXCEPT !.preview = @ + 1] ELSE outbox
  /\ ready' = Append(ready, MonId(k))
  /\ UNCHANGED <<now, configured, recent_tool_usage, recent_tool_context,
                 ctxs, monitoring_tasks, simplified_dialogs, sm, nh, waiters>>
  /\ UNCHANGED <<opsVars, auxVars>>

MonitorSleepDone(k) ==
  /\ mon[k].pc = "sleep" /\ ~InReady(MonId(k))
  /\ ready' = Append(ready, MonId(k))
  /\ UNCHANGED <<now, configured, recent_tool_usage, recent_tool_context,
                 ctxs, monitoring_tasks, simplified_dialogs, sm, mon, nh, waiters,
                 outbox>>
  /\ UNCHANGED <<opsVars, auxVars>>

\* ---- Notification: process_hook_event, handle_notification_hook and
\* ---- send_full_permission_dialog ----

\* the dict a handler holds a reference to: a stored context, or a dict of
\* its own ({} or the minimal context)
NhContext(n) == IF nh[n].ctx # 0 THEN ctxs[nh[n].ctx] ELSE nh[n].local

\* the end of the Notification branch: _cleanup_old_tool_usage, then the
\* reply; h is the handler's final state
NotifReturn(n, h) ==
  /\ nh' = [nh EXCEPT ![n] = [h EXCEPT !.pc = "done"]]
  /\ recent_tool_usage' = CleanupUsage(recent_tool_usage)
  /\ recent_tool_context' = CleanupContext(recent_tool_context)

\* stop_monitoring cancels the registered task and awaits it
NotifStopAndWait(n, h, pc) ==
  LET k == monitoring_tasks[nh[n].session]
  IN  /\ mon' = CancelTask(mon, k)
      /\ ready' = CancelQueue(Tail(ready), k)
      /\ waiters' = [waiters EXCEPT ![k] = Append(@, NhId(n))]
      /\ nh' = [nh EXCEPT ![n] = [h EXCEPT !.pc = pc]]
      /\ UNCHANGED <<recent_tool_usage, recent_tool_context, ctxs,
                     monitoring_tasks, simplified_dialogs>>

\* send_full_permission_dialog from "Check if we should skip" on; info is
\* the record fetched at the start of the call, context the dict passed in
SendFullDecide(n, h, info, context, sendpc) ==
  LET s == nh[n].session
      should_skip == info # NoRec
                     /\ CreatePermissionContextHash(context) = info.context_hash
  IN  /\ monitoring_tasks' = [monitoring_tasks EXCEPT ![s] = 0]
      /\ UNCHANGED <<mon, waiters>>
      /\ IF should_skip
         THEN /\ simplified_dialogs' = [simplified_dialogs EXCEPT ![s] = NoRec]
              /\ NotifReturn(n, [h EXCEPT !.outcome = "skipped",
                                          !.hadshown = info.shown,
                                          !.fp = CreatePermissionContextHash(context)])
              /\ ready' = Tail(ready)
         ELSE IF DialogIsValid(GetPermissionOptions(context))
         THEN \* bot.send_message is issued
              /\ nh' = [nh EXCEPT ![n] = [h EXCEPT !.pc = sendpc, !.res = "none",
                                                   !.sends = @ + 1,
                                                   !.fp = CreatePermissionContextHash(context)]]
              /\ ready' = Tail(ready)
              /\ UNCHANGED <<simplified_dialogs, recent_tool_usage, recent_tool_context>>
         ELSE \* _send_permission_dialog returns without sending
              /\ simplified_dialogs' = [simplified_dialogs EXCEPT ![s] = NoRec]
              /\ NotifReturn(n, [h EXCEPT !.outcome = "invalid",
                                          !.fp = CreatePermissionContextHash(context)])
              /\ ready' = Tail(ready)

\* handle_notification_hook after its stop_monitoring, and what follows it
\* in process_hook_event up to the next suspension
NotifAfterStop(n, h) ==
  LET s == nh[n].session
      m == nh[n].message
  IN  IF simplified_dialogs[s] # NoRec
      THEN \* the monitor handles it: send_full_permission_dialog with the
           \* context passed to handle_notification_hook
           /\ SendFullDecide(n, h, simplified_dialogs[s],
                             IF h.ctx # 0 THEN ctxs[h.ctx] ELSE h.local, "a_send")
           /\ UNCHANGED ctxs
      ELSE /\ monitoring_tasks' = [monitoring_tasks EXCEPT ![s] = 0]
           /\ UNCHANGED <<mon, waiters, simplified_dialogs, ctxs>>
           /\ ready' = Tail(ready)
           /\ IF IsPermissionDialog(s, m)
              THEN \* choose the context, then read the pane
                   /\ nh' = [nh EXCEPT ![n] =
                              [h EXCEPT !.pc = "pane",
                                        !.ctx = recent_tool_context[s],
                                        !.local = [tool_use |-> m.lastword,
                                                   tool_input |-> "",
                                                   timestamp |-> now,
                                                   permission_options |-> 0,
                                                   empty |-> FALSE]]]
                   /\ UNCHANGED <<recent_tool_usage, recent_tool_context>>
              ELSE \* idle or plain notice: the hook notification of type
                   \* "notification" formats to nothing and sends nothing
                   NotifReturn(n, [h EXCEPT !.outcome = "notice"])

\* the connection handler runs the Notification branch
NotifStart(n) ==
  /\ IsHead(NhId(n))
  /\ nh[n].pc = "arrived"
  /\ LET s == nh[n].session
         h == [nh[n] EXCEPT
                 !.ctx = recent_tool_context[s],
                 !.matched =
                    /\ simplified_dialogs[s] # NoRec
                    /\ recent_tool_context[s] # 0
                    /\ simplified_dialogs[s].context_hash =
                         CreatePermissionContextHash(ctxs[recent_tool_context[s]])]
     IN  IF StopNeedsAwait(s)
         THEN NotifStopAndWait(n, h, "hn_await")
         ELSE NotifAfterStop(n, h)
  /\ UNCHANGED <<now, configured, sm, outbox>>
  /\ UNCHANGED <<opsVars, auxVars>>

NotifResumeStop(n) ==
  /\ IsHead(NhId(n))
  /\ nh[n].pc = "hn_await"
  /\ NotifAfterStop(n, nh[n])
  /\ UNCHANGED <<now, configured, sm, outbox>>
  /\ UNCHANGED <<opsVars, auxVars>>

\* the pane read returned: the options are written into the context dict,
\* then send_full_permission_dialog runs up to its first suspension
NotifAfterPane(n) ==
  /\ IsHead(NhId(n))
  /\ nh[n].pc = "pane"
  /\ LET s == nh[n].session
         h == IF nh[n].ctx # 0 THEN nh[n]
              ELSE [nh[n] EXCEPT !.local.permission_options = nh[n].opts]
         cs == IF nh[n].ctx # 0
               THEN [ctxs EXCEPT ![nh[n].ctx].permission_options = nh[n].opts]
               ELSE ctxs
         context == IF h.ctx # 0 THEN cs[h.ctx] ELSE h.local
         hi == [h EXCEPT !.info = simplified_dialogs[s]]
     IN  /\ ctxs' = cs
         /\ IF ~configured
            THEN \* no conversation monitor configured: nothing is sent
                 /\ NotifReturn(n, [h EXCEPT !.outcome = "unconfigured"])
                 /\ ready' = Tail(ready)
                 /\ UNCHANGED <<mon, waiters, monitoring_tasks, simplified_dialogs>>
            ELSE IF StopNeedsAwait(s)
            THEN /\ mon' = CancelTask(mon, monitoring_tasks[s])
                 /\ ready' = CancelQueue(Tail(ready), monitoring_tasks[s])
                 /\ waiters' = [waiters EXCEPT ![monitoring_tasks[s]] = Append(@, NhId(n))]
                 /\ nh' = [nh EXCEPT ![n] = [hi EXCEPT !.pc = "b_await"]]
                 /\ UNCHANGED <<recent_tool_usage, recent_tool_context,
                                monitoring_tasks, simplified_dialogs>>
            ELSE SendFullDecide(n, hi, hi.info, context, "b_send")
  /\ UNCHANGED <<now, configured, sm, outbox>>
  /\ UNCHANGED <<opsVars, auxVars>>

NotifResumeFull(n) ==
  /\ IsHead(NhId(n))
  /\ nh[n].pc = "b_await"
  /\ SendFullDecide(n, nh[n], nh[n].info, NhContext(n), "b_send")
  /\ UNCHANGED <<now, configured, sm, ctxs, outbox>>
  /\ UNCHANGED <<opsVars, auxVars>>

\* the full dialog's send returned (a failure is logged and swallowed):
\* the record is dropped and the branch ends
NotifAfterSend(n) ==
  /\ IsHead(NhId(n))
  /\ nh[n].pc \in {"a_send", "b_send"}
  /\ simplified_dialogs' = [simplified_dialogs EXCEPT ![nh[n].session] = NoRec]
  /\ NotifReturn(n, [nh[n] EXCEPT !.outcome = "sent"])
  /\ ready' = Tail(ready)
  /\ UNCHANGED <<now, configured, ctxs, monitoring_tasks, sm, mon, waiters,
                 outbox>>
  /\ UNCHANGED <<opsVars, auxVars>>

\* I/O of a Notification handler completes
NotifPaneDone(n, p) ==
  /\ nh[n].pc = "pane" /\ ~InReady(NhId(n))
  /\ nh' = [nh EXCEPT ![n].opts = p]
  /\ ready' = Append(ready, NhId(n))
  /\ UNCHANGED <<now, configured, recent_tool_usage, recent_tool_context,
                 ctxs, monitoring_tasks, simplified_dialogs, sm, mon, waiters,
                 outbox>>
  /\ UNCHANGED <<opsVars, auxVars>>

NotifSendDone(n, r) ==
  /\ nh[n].pc \in {"a_send", "b_send"} /\ ~InReady(NhId(n))
  /\ nh' = [nh EXCEPT ![n].res = r]
  /\ outbox' = IF r = "ok" THEN [outbox EXCEPT !.full = @ + 1] ELSE outbox
  /\ ready' = Append(ready, NhId(n))
  /\ UNCHANGED <<now, configured, recent_tool_usage, recent_tool_context,
                 ctxs, monitoring_tasks, simplified_dialogs, sm, mon, waiters>>
  /\ UNCHANGED <<opsVars, auxVars>>

\* ---- PermissionMonitor._run_periodic_cleanup ----

\* The coroutine wakes from asyncio.sleep(CLEANUP_INTERVAL) and runs
\* cleanup_old_sessions, which does not suspend.  Its timer is independent of
\* the hook traffic, so the step can fall between any two steps of the other
\* coroutines.
CleanupOldSessions ==
  /\ configured
  /\ monitoring_tasks' = CleanupTasks(monitoring_tasks)
  /\ simplified_dialogs' = CleanupDialogs(simplified_dialogs)
  /\ UNCHANGED <<now, configured, recent_tool_usage, recent_tool_context,
                 ctxs, sm, mon, nh, ready, waiters, outbox>>
  /\ UNCHANGED <<opsVars, auxVars>>

\* ---- the MessageTracker: pre_tool and post_tool notifications ----
\*
\* process_hook_event ends its PreToolUse and PostToolUse branches by creating
\* a background task for send_hook_notification.  That task runs through
\* handle_conversation_update and _send_to_telegram into
\* _handle_message_for_user without suspending; it shares no state with the
\* permission flow above.  There is one user to notify.

\* A text is a sequence of chunks: a chunk is what fits into one Telegram
\* message.  tick says that the chunk holds a backtick, esc counts the
\* backslashes put in front of it.
Message(i, n, tick) ==
  [p \in 1..n |-> [msg |-> i, part |-> p, tick |-> (tick /\ p = n), esc |-> 0]]

Max(S) == CHOOSE x \in S : \A y \in S : y <= x

\* _sanitize_markdown: with an odd number of backticks the last one is
\* escaped (it still counts as a backtick the next time)
SanitizeMarkdown(text) ==
  LET ticks == {p \in DOMAIN text : text[p].tick}
  IN  IF Cardinality(ticks) % 2 = 1
      THEN [text EXCEPT ![Max(ticks)].esc = @ + 1]
      ELSE text

\* _split_long_message: one part per chunk
SplitLongMessage(text) == [p \in DOMAIN text |-> <<text[p]>>]

\* f"{pre_tool_content}\n\n{message}"
CombinedMessage(content, message) == content \o message

\* ConversationMonitor._format_hook_notification, by the emoji the text
\* carries; "" stands for None: nothing is handed to the callback
FormatHookNotification(kind, tool) ==
  IF kind = "pre_tool_use"
  THEN IF tool = "Bash" THEN "laptop" ELSE "open book"
  ELSE IF tool = "Read" THEN "" ELSE "check mark"

\* MessageTracker.get_message_type
PRE_TOOL_PREFIXES == {"pencil", "memo", "eye", "laptop", "magnifier", "wrench"}
GetMessageType(mark) ==
  IF mark \in PRE_TOOL_PREFIXES THEN "pre_tool"
  ELSE IF mark = "check mark" THEN "post_tool"
  ELSE "other"

ThId(i) == <<"th", i>>
Formatted(h) == FormatHookNotification(h.kind, h.tool_name)
MessageType(h) == GetMessageType(Formatted(h))
OperationKey(h) == <<h.session, h.tool_name>>
OpKeys == Sessions \X OpTools

\* MessageTracker.cleanup_old_operations
OPERATION_MAX_AGE == 600
CleanupOldOperations(ops) ==
  [key \in OpKeys |->
     IF ops[key] # NoOp /\ now - ops[key].timestamp > OPERATION_MAX_AGE
     THEN NoOp ELSE ops[key]]

\* a remove_tool_operation that leaves the entry in the map
RemoveToolOperationKept(ops, key) == ops

\* MessageTracker.remove_tool_operation
RemoveToolOperation(ops, key) == [ops EXCEPT ![key] = NoOp]

\* an update that stores the handle and keeps the text of the whole notification
UpdateOperationKeepsContent(ops, key, last) ==
  IF ops[key] # NoOp
  THEN [ops EXCEPT ![key].message_id = last.message_id]
  ELSE ops

\* the update of the entry once the series was sent
UpdateOperation(ops, key, last) ==
  IF ops[key] # NoOp
  THEN [ops EXCEPT ![key].message_id = last.message_id,
                   ![key].content = last.content]
  ELSE ops

\* sends, edits, found_id, found_op, edit_shown, edited, last_id, raised and
\* gone are not program state: they remember what the handler found and did
\* (found_op: the handler whose entry a post_tool found at its first lookup)
NewTh == [pc |-> "none", kind |-> "", session |-> "s1", tool_name |-> "",
          message |-> <<>>, purpose |-> "", parts |-> <<>>, part |-> 0,
          sent |-> <<>>, handle |-> 0, res |-> "none",
          edit_on |-> 0, edit_text |-> <<>>,
          sends |-> 0, edits |-> 0, found_id |-> -1, edit_shown |-> <<>>,
          edited |-> "none", last_id |-> 0, raised |-> FALSE, gone |-> FALSE,
          found_op |-> 0]

\* the notification task of a PreToolUse / PostToolUse hook is created
HookTool(kind, limit, s, t, n, tick) ==
  /\ Cardinality({i \in OpIds : th[i].kind = kind}) < limit
  /\ \E i \in OpIds :
       /\ th[i].pc = "none"
       /\ \A l \in OpIds : l < i => th[l].pc # "none"
       /\ th' = [th EXCEPT ![i] = [NewTh EXCEPT !.pc = "arrived", !.kind = kind,
                                     !.session = s, !.tool_name = t,
                                     !.message = Message(i, n, tick)]]
       /\ ready' = Append(ready, ThId(i))
  /\ UNCHANGED <<now, pending_tool_operations, chat>>
  /\ UNCHANGED <<permVars, auxVars>>

HookToolStarted(s, t, n, tick) == HookTool("pre_tool_use", MaxStarted, s, t, n, tick)
HookToolFinished(s, t, n, tick) == HookTool("post_tool_use", MaxFinished, s, t, n, tick)

\* _send_message_series up to its first bot.send_message
StartSeries(h, purpose) ==
  [h EXCEPT !.pc = "send", !.purpose = purpose,
            !.parts = SplitLongMessage(SanitizeMarkdown(h.message)),
            !.part = 1, !.sent = <<>>, !.res = "none", !.sends = @ + 1]

\* the handler returns; the tool branch ends with cleanup_old_operations
HandlerReturn(i, h, ops) ==
  /\ th' = [th EXCEPT ![i] = [h EXCEPT !.pc = "done", !.parts = <<>>,
                                       !.part = 0, !.sent = <<>>, !.handle = 0,
                                       !.res = "none"]]
  /\ pending_tool_operations' = CleanupOldOperations(ops)

\* a _send_new_message without its except clause
SendNewMessageRaises(h) == [h EXCEPT !.raised = TRUE]

\* _send_new_message catches what _send_message_series raises
SendNewMessageFailed(h) == [h EXCEPT !.raised = FALSE]

\* send_hook_notification with a notification that formats to None
NotificationSilenced(i) ==
  /\ IsHead(ThId(i))
  /\ th[i].pc = "arrived" /\ Formatted(th[i]) = ""
  /\ th' = [th EXCEPT ![i].pc = "done",
                      ![i].found_id =
                         pending_tool_operations[OperationKey(th[i])].message_id]
  /\ ready' = Tail(ready)
  /\ UNCHANGED <<now, chat, pending_tool_operations>>
  /\ UNCHANGED <<permVars, auxVars>>

\* a message that is neither pre_tool nor post_tool: _send_new_message
OtherMessageRun(i) ==
  /\ IsHead(ThId(i))
  /\ th[i].pc = "arrived" /\ Formatted(th[i]) # ""
  /\ MessageType(th[i]) = "other"
  /\ th' = [th EXCEPT ![i] = StartSeries(th[i], "other")]
  /\ ready' = Tail(ready)
  /\ UNCHANGED <<now, chat, pending_tool_operations>>
  /\ UNCHANGED <<permVars, auxVars>>

\* pre_tool: the provisional entry is written, then the series starts
ToolStartedRun(i) ==
  /\ IsHead(ThId(i))
  /\ th[i].pc = "arrived" /\ MessageType(th[i]) = "pre_tool"
  /\ pending_tool_operations' =
       [pending_tool_operations EXCEPT ![OperationKey(th[i])] =
          [message_id |-> 0, content |-> th[i].message, timestamp |-> now]]
  /\ th' = [th EXCEPT ![i] = StartSeries(th[i], "pre")]
  /\ ready' = Tail(ready)
  /\ UNCHANGED <<now, chat>>
  /\ UNCHANGED <<permVars, auxVars>>

\* post_tool with an entry that has a message_id: the edit is issued
IssueEdit(i, h, op) ==
  /\ th' = [th EXCEPT ![i] =
       [h EXCEPT !.pc = "edit", !.res = "none",
                 !.edit_on = op.message_id,
                 !.edit_text = SanitizeMarkdown(CombinedMessage(op.content, h.message)),
                 !.edits = @ + 1, !.found_id = op.message_id,
                 !.edit_shown = chat[op.message_id]]]
  /\ UNCHANGED pending_tool_operations

\* post_tool: look the entry up
ToolFinishedRun(i) ==
  /\ IsHead(ThId(i))
  /\ th[i].pc = "arrived" /\ MessageType(th[i]) = "post_tool"
  /\ LET op == pending_tool_operations[OperationKey(th[i])]
     IN  IF op = NoOp
         THEN /\ th' = [th EXCEPT ![i] = StartSeries(th[i], "fresh")]
              /\ UNCHANGED pending_tool_operations
         ELSE IF op.message_id = 0
         THEN /\ th' = [th EXCEPT ![i].pc = "retry", ![i].found_id = 0,
                                   ![i].found_op = op.content[1].msg]
              /\ UNCHANGED pending_tool_operations
         ELSE IssueEdit(i, [th[i] EXCEPT !.found_op = op.content[1].msg], op)
  /\ ready' = Tail(ready)
  /\ UNCHANGED <<now, chat>>
  /\ UNCHANGED <<permVars, auxVars>>

\* post_tool after asyncio.sleep(0.1): one more lookup, no fallback
ToolFinishedRetry(i) ==
  /\ IsHead(ThId(i))
  /\ th[i].pc = "retried"
  /\ LET op == pending_tool_operations[OperationKey(th[i])]
     IN  IF op # NoOp /\ op.message_id > 0
         THEN IssueEdit(i, th[i], op)
         ELSE HandlerReturn(i, th[i], pending_tool_operations)
  /\ ready' = Tail(ready)
  /\ UNCHANGED <<now, chat>>
  /\ UNCHANGED <<permVars, auxVars>>

\* post_tool after bot.edit_message_text
AfterEdit(i) ==
  /\ IsHead(ThId(i))
  /\ th[i].pc = "edited"
  /\ IF th[i].res = "ok"
     THEN LET ops == RemoveToolOperation(pending_tool_operations, OperationKey(th[i]))
          IN  HandlerReturn(i, [th[i] EXCEPT !.gone = ops[OperationKey(th[i])] = NoOp], ops)
     ELSE /\ th' = [th EXCEPT ![i] = StartSeries(th[i], "fresh")]
          /\ UNCHANGED pending_tool_operations
  /\ ready' = Tail(ready)
  /\ UNCHANGED <<now, chat>>
  /\ UNCHANGED <<permVars, auxVars>>

\* _send_message_series after its loop
FinishSeries(i, h) ==
  IF h.sent = <<>>
  THEN IF h.purpose = "pre"
       THEN /\ th' = [th EXCEPT ![i] = [h EXCEPT !.pc = "done", !.parts = <<>>,
                                                 !.part = 0, !.res = "none"]]
            /\ pending_tool_operations' =
                 RemoveToolOperation(pending_tool_operations, OperationKey(h))
       ELSE IF h.purpose = "other"
       THEN /\ th' = [th EXCEPT ![i] = [SendNewMessageFailed(h) EXCEPT
                                          !.pc = "done", !.parts = <<>>,
                                          !.part = 0, !.res = "none"]]
            /\ UNCHANGED pending_tool_operations
       ELSE HandlerReturn(i, SendNewMessageFailed(h), pending_tool_operations)
  ELSE IF h.purpose = "pre"
       THEN HandlerReturn(i, [h EXCEPT !.last_id = h.sent[Len(h.sent)].message_id],
                          UpdateOperation(pending_tool_operations,
                                          OperationKey(h), h.sent[Len(h.sent)]))
       ELSE IF h.purpose = "other"
       THEN /\ th' = [th EXCEPT ![i] = [h EXCEPT !.pc = "done", !.parts = <<>>,
                                                 !.part = 0, !.sent = <<>>,
                                                 !.handle = 0, !.res = "none"]]
            /\ UNCHANGED pending_tool_operations
       ELSE HandlerReturn(i, h, pending_tool_operations)

\* _send_message_series after bot.send_message for one part
AfterPartSend(i) ==
  /\ IsHead(ThId(i))
  /\ th[i].pc = "sent"
  /\ IF th[i].res = "ok"
     THEN LET h == [th[i] EXCEPT !.sent = Append(@, [message_id |-> th[i].handle,
                                                      content |-> th[i].parts[th[i].part]])]
          IN  IF h.part < Len(h.parts)
              THEN /\ th' = [th EXCEPT ![i] = [h EXCEPT !.pc = "pause"]]
                   /\ UNCHANGED pending_tool_operations
              ELSE FinishSeries(i, h)
     ELSE FinishSeries(i, th[i])
  /\ ready' = Tail(ready)
  /\ UNCHANGED <<now, chat>>
  /\ UNCHANGED <<permVars, auxVars>>

\* _send_message_series after the pause between two parts
AfterPause(i) ==
  /\ IsHead(ThId(i))
  /\ th[i].pc = "paused"
  /\ th' = [th EXCEPT ![i].pc = "send", ![i].part = @ + 1, ![i].res = "none"]
  /\ ready' = Tail(ready)
  /\ UNCHANGED <<now, chat, pending_tool_operations>>
  /\ UNCHANGED <<permVars, auxVars>>

\* Telegram answers bot.send_message
PartSendDone(i, r) ==
  /\ th[i].pc = "send"
  /\ chat' = IF r = "ok" THEN Append(chat, th[i].parts[th[i].part]) ELSE chat
  /\ th' = [th EXCEPT ![i].pc = "sent", ![i].res = r,
                      ![i].handle = IF r = "ok" THEN Len(chat) + 1 ELSE 0]
  /\ ready' = Append(ready, ThId(i))
  /\ UNCHANGED <<now, pending_tool_operations>>
  /\ UNCHANGED <<permVars, auxVars>>

\* Telegram answers bot.edit_message_text
EditDone(i, r) ==
  /\ th[i].pc = "edit"
  /\ chat' = IF r = "ok" THEN [chat EXCEPT ![th[i].edit_on] = th[i].edit_text] ELSE chat
  /\ th' = [th EXCEPT ![i].pc = "edited", ![i].res = r, ![i].edited = r]
  /\ ready' = Append(ready, ThId(i))
  /\ UNCHANGED <<now, pending_tool_operations>>
  /\ UNCHANGED <<permVars, auxVars>>

\* a timer of the handler expires: the retry wait or the pause between parts
SleepDone(i) ==
  /\ th[i].pc \in {"retry", "pause"}
  /\ th' = [th EXCEPT ![i].pc = IF th[i].pc = "retry" THEN "retried" ELSE "paused"]
  /\ ready' = Append(ready, ThId(i))
  /\ UNCHANGED <<now, pending_tool_operations, chat>>
  /\ UNCHANGED <<permVars, auxVars>>

\* ---- the socket boundary: hook scripts, the stream, handle_client ----

\* connections in a run
MaxConn == 2
ConnIds == 1..MaxConn

\* the scripts the agent runs, and a client that is no hook script
HookUtilsScripts == {"notification_hook", "post_tool_use_hook"}
RecvScripts == {"stop_hook", "user_prompt_submit_hook", "pre_tool_use_hook"}
Scripts == HookUtilsScripts \cup RecvScripts \cup {"raw"}

\* the event each script is installed for
EventOf(script) ==
  CASE script = "notification_hook" -> "Notification"
    [] script = "post_tool_use_hook" -> "PostToolUse"
    [] script = "stop_hook" -> "Stop"
    [] script = "user_prompt_submit_hook" -> "UserPromptSubmit"
    [] script = "pre_tool_use_hook" -> "PreToolUse"
    [] OTHER -> ""

\* the hook input read from stdin
HookInput(script, s) ==
  [hook_event_name |-> EventOf(script), session_id |-> s, transcript_path |-> "t.jsonl"]

\* json.dumps(hook_input).encode("utf-8"): the bytes of one JSON object, here
\* one element per token
Serialize(r) ==
  <<"{", "hook_event_name", r.hook_event_name, "session_id", r.session_id,
    "transcript_path", r.transcript_path, "}">>

\* what a client that is no hook script may write: nothing, text that is no
\* JSON, bytes that are no UTF-8, a JSON value that is no object
RawPayloads == {<<>>, <<"garbage">>, <<"\\xff">>, <<"[", "]">>}

\* what handle_client makes of the bytes it read
\* (nothing, an exception, a JSON value that is no object, a JSON object)
NoData == [kind |-> "none"]
Outcome(kind) == [kind |-> kind]
JsonObject(r) == [kind |-> "object", value |-> r]

\* data.decode("utf-8")
DecodeFails(data) == \E i \in 1..Len(data) : data[i] = "\\xff"

\* a lenient parser: whatever it is given it takes for a PreToolUse event
JsonLoadsLenient(data) ==
  JsonObject([hook_event_name |-> "PreToolUse", session_id |-> "s1",
              transcript_path |-> "t.jsonl"])

\* json.loads: one complete JSON value, or JSONDecodeError
JsonLoads(data) ==
  IF /\ Len(data) = 8
     /\ data[1] = "{" /\ data[8] = "}"
     /\ data[2] = "hook_event_name" /\ data[4] = "session_id"
     /\ data[6] = "transcript_path"
  THEN JsonObject([hook_event_name |-> data[3], session_id |-> data[5],
                   transcript_path |-> data[7]])
  ELSE IF data = <<"[", "]">> THEN Outcome("list")
  ELSE Outcome("JSONDecodeError")

\* the state process_hook_event changes or the task it spawns before it
\* returns, by event; a value that is no dict raises at hook_data.get
ProcessHookEvent(parsed) ==
  IF parsed.kind # "object" THEN [raised |-> TRUE, effects |-> {}]
  ELSE LET hook_type == parsed.value.hook_event_name
       IN  [raised |-> FALSE,
            effects |->
              CASE hook_type = "Stop" -> {"process_transcript"}
                [] hook_type = "UserPromptSubmit" -> {"send_hook_notification"}
                [] hook_type = "PostToolUse" -> {"send_hook_notification"}
                [] hook_type = "Notification" -> {"handle_notification_hook"}
                [] hook_type = "PreToolUse" ->
                     {"recent_tool_usage", "send_hook_notification"}
                [] OTHER -> {}]

\* the ways the stream may deliver the bytes of one sendall: whole, or cut in
\* two at any place
Fragments(bytes) ==
  IF bytes = <<>> THEN {<<>>}
  ELSE {<<bytes>>} \cup
       {<<SubSeq(bytes, 1, i), SubSeq(bytes, i + 1, Len(bytes))>> :
          i \in 1..(Len(bytes) - 1)}

\* cpc is the client's place, spc the place of its handle_client; wire holds
\* the fragments on their way, rbuf the bytes the StreamReader has buffered;
\* sent, effects and raised remember what was written and what the handler did
NewConn == [script |-> "", cpc |-> "none", exit |-> "none", printed |-> "",
            timeout |-> FALSE, sent |-> <<>>, wire |-> <<>>, rbuf |-> <<>>,
            eof |-> FALSE, spc |-> "none", hook_data |-> NoData,
            reply |-> <<>>, effects |-> {}, raised |-> FALSE]

\* everything but the connections and the usage map
ipcRest == <<now, configured, recent_tool_context, ctxs, monitoring_tasks,
             simplified_dialogs, sm, mon, nh, ready, waiters, outbox, opsVars,
             store, down, boot, extVars>>

\* print(json.dumps(...)); sys.exit(0)
HookExit(k) == [k EXCEPT !.exit = "0", !.printed = "continue"]

\* the agent runs a hook script, or some other client turns up; a script of
\* hook_utils forks: the parent prints the reply and exits, the child goes on
HookRun(script, s) ==
  /\ \E c \in ConnIds :
       /\ conn[c].cpc = "none"
       /\ \A i \in ConnIds : i < c => conn[i].cpc # "none"
       /\ conn' = [conn EXCEPT ![c] =
            IF script \in HookUtilsScripts
            THEN [HookExit(NewConn) EXCEPT !.script = script, !.cpc = "start",
                                           !.sent = Serialize(HookInput(script, s))]
            ELSE [NewConn EXCEPT !.script = script, !.cpc = "start",
                                 !.sent = IF script = "raw" THEN <<>>
                                          ELSE Serialize(HookInput(script, s))]]
  /\ UNCHANGED <<recent_tool_usage, ipcRest>>

\* socket_path.exists() and sock.connect: no socket file, a file nobody
\* listens on, or a server that accepts (handle_client starts)
ClientConnect(c, outcome) ==
  /\ conn[c].cpc = "start"
  /\ conn' = [conn EXCEPT ![c] =
       IF outcome = "accepted"
       THEN [@ EXCEPT !.cpc = "connected", !.timeout = FALSE, !.spc = "reading"]
       ELSE IF @.script \in RecvScripts
            THEN [HookExit(@) EXCEPT !.cpc = "gone"]
            ELSE [@ EXCEPT !.cpc = "gone"]]
  /\ UNCHANGED <<recent_tool_usage, ipcRest>>

\* sock.sendall: the bytes leave, in one piece or in two; a script of
\* hook_utils closes the socket, the others go on to sock.recv(4096)
ClientSend(c, payload, frags) ==
  /\ conn[c].cpc = "connected"
  /\ payload = IF conn[c].script = "raw" THEN payload ELSE conn[c].sent
  /\ conn[c].script = "raw" => payload \in RawPayloads
  /\ frags \in Fragments(payload)
  /\ conn' = [conn EXCEPT ![c] =
       [@ EXCEPT !.sent = payload, !.wire = frags,
                 !.cpc = IF conn[c].script \in RecvScripts THEN "recv" ELSE "gone",
                 !.eof = conn[c].script \notin RecvScripts]]
  /\ UNCHANGED <<recent_tool_usage, ipcRest>>

\* a fragment reaches the server's StreamReader
Deliver(c) ==
  /\ conn[c].wire # <<>>
  /\ conn' = [conn EXCEPT ![c].rbuf = @ \o Head(conn[c].wire),
                          ![c].wire = Tail(@)]
  /\ UNCHANGED <<recent_tool_usage, ipcRest>>

\* handle_client from reader.read(65536) to the await of process_hook_event
\* (or to the finally clause): read returns what is buffered, or b"" at EOF
HandleClientRead(c) ==
  /\ conn[c].spc = "reading"
  /\ conn[c].rbuf # <<>> \/ (conn[c].wire = <<>> /\ conn[c].eof)
  /\ LET data == conn[c].rbuf
         parsed == IF data = <<>> THEN NoData
                   ELSE IF DecodeFails(data) THEN Outcome("UnicodeDecodeError")
                   ELSE JsonLoads(data)
         called == parsed.kind \in {"object", "list"}
         done == ProcessHookEvent(parsed)
     IN  /\ conn' = [conn EXCEPT ![c] =
              [@ EXCEPT !.rbuf = <<>>,
                        !.hook_data = IF called THEN parsed ELSE NoData,
                        !.effects = IF called THEN done.effects ELSE {},
                        !.raised = parsed.kind = "UnicodeDecodeError"
                                   \/ (called /\ done.raised),
                        !.spc = IF called /\ ~done.raised THEN "processing"
                                ELSE "closed"]]
         /\ recent_tool_usage' =
              IF called /\ "recent_tool_usage" \in done.effects
              THEN LimitUsage([recent_tool_usage EXCEPT
                                 ![parsed.value.session_id] = now])
              ELSE recent_tool_usage
  /\ UNCHANGED ipcRest

\* process_hook_event returned; its value is dropped; writer.close()
HandleClientReturn(c) ==
  /\ conn[c].spc = "processing"
  /\ conn' = [conn EXCEPT ![c].spc = "closed"]
  /\ UNCHANGED <<recent_tool_usage, ipcRest>>

\* sock.recv(4096) returns: a reply, or b"" when the server has closed; the
\* script prints a reply that lets the agent continue and exits
ClientRecvDone(c) ==
  /\ conn[c].cpc = "recv"
  /\ conn[c].reply # <<>> \/ conn[c].spc = "closed"
  /\ conn' = [conn EXCEPT ![c] = [HookExit(@) EXCEPT !.cpc = "gone"]]
  /\ UNCHANGED <<recent_tool_usage, ipcRest>>

\* ---- the capacity-bounded maps: _limit_dict_size ----

\* sessions that start tools, the capacity the maps are limited to (max_size,
\* 1000 in the program) and the last reading of the clock in a run
StoreSessions == {"s1", "s2", "s3", "s4"}
StoreCap == 2
MaxClock == 3

\* a dict is a sequence of items [key, timestamp] in insertion order
\* d[key] = value: an existing key keeps its place, a new key goes last
DictSet(items, key, t) ==
  IF \E i \in 1..Len(items) : items[i].key = key
  THEN [i \in 1..Len(items) |->
          IF items[i].key = key THEN [key |-> key, timestamp |-> t] ELSE items[i]]
  ELSE Append(items, [key |-> key, timestamp |-> t])

\* the items left in their order of insertion: what the third branch of
\* _limit_dict_size does for values without a timestamp
InsertionOrder(items) == items

\* items.sort(key=timestamp): stable, ascending
RECURSIVE SortByTimestamp(_)
SortByTimestamp(items) ==
  IF items = <<>> THEN <<>>
  ELSE LET n == Len(items)
           front == SortByTimestamp(SubSeq(items, 1, n - 1))
           x == items[n]
           before == SelectSeq(front, LAMBDA y : y.timestamp <= x.timestamp)
           after == SelectSeq(front, LAMBDA y : y.timestamp > x.timestamp)
       IN  before \o <<x>> \o after

\* _limit_dict_size(target_dict, max_size): the keys it deletes
KeysToRemove(items, max_size) ==
  IF Len(items) <= max_size THEN {}
  ELSE LET sorted == SortByTimestamp(items)
       IN  {sorted[i].key : i \in 1..(Len(items) - max_size)}

\* _limit_dict_size(target_dict, max_size): the dict afterwards
LimitDictSize(items, max_size) ==
  LET gone == KeysToRemove(items, max_size)
  IN  SelectSeq(items, LAMBDA x : x.key \notin gone)

\* session, listed, out_usage and out_context remember the last event and the
\* items it evicted
NewStore == [usage |-> <<>>, context |-> <<>>, clock |-> 0, session |-> "",
             listed |-> FALSE, out_usage |-> {}, out_context |-> {}]

\* process_hook_event, PreToolUse branch, on the two maps: store the usage
\* timestamp and limit the map; for a listed tool store the context and limit
StoreToolStarted(s, listed, dt) ==
  /\ store.clock + dt <= MaxClock
  /\ LET t == store.clock + dt
         u == DictSet(store.usage, s, t)
         x == DictSet(store.context, s, t)
     IN  store' = [usage |-> LimitDictSize(u, StoreCap),
                   context |-> IF listed THEN LimitDictSize(x, StoreCap)
                               ELSE store.context,
                   clock |-> t, session |-> s, listed |-> listed,
                   out_usage |-> {u[i] : i \in {j \in 1..Len(u) :
                                     u[j].key \in KeysToRemove(u, StoreCap)}},
                   out_context |-> IF listed
                                   THEN {x[i] : i \in {j \in 1..Len(x) :
                                           x[j].key \in KeysToRemove(x, StoreCap)}}
                                   ELSE {}]
  /\ UNCHANGED <<now, ready, permVars, opsVars, ipcVars, down, boot, extVars>>

\* ---- shutdown: run_application's finally and UnixSocketServer.stop ----

\* tool starts accepted before and while the application shuts down
MaxDownPre == 2

\* the tasks _create_background_task tracks on behalf of the permission flow:
\* start_monitoring coroutines that have not finished
BackgroundTasks == {j \in PreIds : sm[j].pc \in {"created", "await"}}

\* what the shutdown steps leave alone
downRest == <<now, configured, recent_tool_usage, recent_tool_context, ctxs,
              monitoring_tasks, simplified_dialogs, mon, nh, waiters, outbox,
              opsVars, ipcVars, store, boot, extVars>>

\* a PreToolUse connection is accepted: only a listening server accepts
AcceptPreToolUse(s, inv) ==
  /\ down.listening
  /\ Cardinality(Started) < MaxDownPre
  /\ HookPreToolUse(s, inv)

\* the bot ended or a signal arrived: the pending socket_task is cancelled
\* and awaited, serve_forever ends and the server is closed
ShutdownBegin ==
  /\ down.pc = "running"
  /\ down' = [down EXCEPT !.pc = "finally", !.listening = FALSE]
  /\ UNCHANGED <<sm, ready, downRest>>

\* finally: bot.stop() and claude_integration.shutdown()
ShutdownIntegration ==
  /\ down.pc = "finally"
  /\ down' = [down EXCEPT !.pc = "stop"]
  /\ UNCHANGED <<sm, ready, downRest>>

\* socket_server.stop() up to its wait: server.close(), then task.cancel()
\* for every tracked task that is not done: a start_monitoring not yet begun
\* never runs; one suspended in stop_monitoring's "await task" catches
\* CancelledError there and goes on when the monitor it waits for has ended
ServerStop ==
  /\ down.pc = "stop"
  /\ LET fresh == {j \in BackgroundTasks : sm[j].pc = "created"}
     IN  /\ sm' = [j \in PreIds |-> IF j \in fresh THEN [sm[j] EXCEPT !.pc = "done"]
                                    ELSE sm[j]]
         /\ ready' = SelectSeq(ready, LAMBDA id :
                                 ~(id[1] = "sm" /\ id[2] \in fresh))
         /\ down' = [down EXCEPT !.pc = "gather", !.listening = FALSE,
                                 !.cancelled = BackgroundTasks]
  /\ UNCHANGED downRest

\* wait_for(gather(*background_tasks), timeout=5.0) returned or timed out;
\* the list is cleared and the socket file removed; "shutdown complete"
ServerStopDone(timed_out) ==
  /\ down.pc = "gather"
  /\ ~timed_out => \A j \in down.cancelled : sm[j].pc = "done"
  /\ down' = [down EXCEPT !.pc = "complete"]
  /\ UNCHANGED <<sm, ready, downRest>>

\* ---- start: UnixSocketServer.start for several instances on one path ----

\* engine instances started for the same bind path
MaxInst == 3
Instances == 1..MaxInst

\* boot.file is the instance whose bind created the socket file, 0 = no file

\* lsof on the path: true when a live process holds the socket of the file
SocketInUse == boot.file # 0 /\ boot.inst[boot.file] = "serving"

\* what a step of start leaves alone
bootRest == <<now, ready, permVars, opsVars, ipcVars, store, down, extVars>>

\* start up to its first await: socket_path.exists()
StartCheck(i) ==
  /\ boot.inst[i] = "idle"
  /\ boot' = [boot EXCEPT !.inst[i] = IF boot.file # 0 THEN "probe" ELSE "init_cwd"]
  /\ UNCHANGED bootRest

\* _is_socket_in_use returned: lsof's answer, or False when lsof is missing or
\* fails; an active socket makes start raise, otherwise the file is unlinked
\* (start fails when it is gone by then)
StartProbed(i, failed) ==
  /\ boot.inst[i] = "probe"
  /\ LET is_active == ~failed /\ SocketInUse
     IN  boot' = IF is_active THEN [boot EXCEPT !.inst[i] = "refused"]
                 ELSE IF boot.file = 0 THEN [boot EXCEPT !.inst[i] = "failed"]
                 ELSE [boot EXCEPT !.inst[i] = "init_cwd", !.file = 0]
  /\ UNCHANGED bootRest

\* initialize_target_cwd returned
StartCwdDone(i) ==
  /\ boot.inst[i] = "init_cwd"
  /\ boot' = [boot EXCEPT !.inst[i] = "bind"]
  /\ UNCHANGED bootRest

\* asyncio.start_unix_server(path=...): a socket file found at the path is
\* removed, the new socket is bound there, and the instance serves
StartBind(i) ==
  /\ boot.inst[i] = "bind"
  /\ boot' = [boot EXCEPT !.inst[i] = "serving", !.file = i]
  /\ UNCHANGED bootRest

\* a serving instance ends: stop() unlinks whatever file is at the path; a
\* killed instance leaves the file behind
InstanceEnds(i, killed) ==
  /\ boot.inst[i] = "serving"
  /\ boot' = [boot EXCEPT !.inst[i] = "ended",
                          !.file = IF killed THEN @ ELSE 0]
  /\ UNCHANGED bootRest

\* ---- specifications ----

\* the state after construction: empty maps, nothing scheduled
\* ---- permission dialogs and their button callbacks ----
MaxCallbacks == 3
DialogIds == {"d1", "d2"}
CbIds == 1..MaxCallbacks
\* pc: where handle_permission_callback stands; answer: what the user who
\* pressed the button was told.  injected counts the option numbers that
\* run_command delivered to the agent for a dialog.
NewCallback == [pc |-> "none", dialog_id |-> "", res |-> "none",
                answer |-> "none"]
NewCb == [permission_dialogs |-> {}, sent |-> {},
          injected |-> [d \in DialogIds |-> 0],
          q |-> [c \in CbIds |-> NewCallback]]

\* ---- _send_to_telegram with several users to notify ----
MaxUsers == 3
Users == 1..MaxUsers
\* the entry of the one key looked at (one session, one tool)
NoFanOp == [user_id |-> 0, message_id |-> -1, chat_id |-> 0]
\* pre, post: the two notification tasks, each in its loop over the users;
\* started, edits, fresh: what each user's chat received (the message_id of
\* the ToolStarted message, the edits made to it, the fresh completions)
NewFan == [ops |-> NoFanOp,
           pre |-> [pc |-> "none", user_id |-> 0],
           post |-> [pc |-> "none", user_id |-> 0, chat_id |-> 0,
                     message_id |-> 0],
           started |-> [u \in Users |-> 0],
           edits |-> [u \in Users |-> 0],
           fresh |-> [u \in Users |-> 0],
           last_id |-> 0]

\* ---- the working-directory filter of process_hook_event ----
\* A path is the sequence of its components below the root; NoCwd stands
\* for a value that is None or empty.
MaxIgnored == 2
NoCwd == <<"">>
NewHook == [pc |-> "unset", filter_hooks_by_cwd |-> FALSE, target_cwd |-> NoCwd,
            seen |-> 0, ignored |-> 0,
            last |-> [hook_event_name |-> "", cwd |-> NoCwd]]

\* ---- context dicts and their hashes ----
\* A dict is the sequence of its <<key, value>> pairs in insertion order.
\* dicts: the context dicts created by the PreToolUse branch, in order;
\* stored: the one in recent_tool_context; monitored: the one the monitoring
\* task was started with; rec: the hash stored at detection; fp: the hash
\* computed for the notice.  "of" and "dict" remember what was hashed.
MaxDicts == 2
NoHash == [context_hash |-> <<>>, of |-> <<>>, dict |-> 0]
NewHashed == [dicts |-> <<>>, stored |-> 0, monitored |-> 0, rec |-> NoHash,
              fp |-> NoHash]

\* ---- RateLimiter ----
RateUsers == {1, 2}
NoBucket == [tokens |-> -1, last_update |-> NoTime]
\* what the last check_rate_limit call was given, what the bucket held after
\* the refill at its start, what it returned and what it left in the bucket
NoCall == [user_id |-> 0, tokens |-> 0, allowed |-> FALSE, available |-> 0,
           left |-> 0]

Init ==
  /\ now = 0
  /\ configured \in BOOLEAN
  /\ recent_tool_usage = [s \in Sessions |-> NoTime]
  /\ recent_tool_context = [s \in Sessions |-> 0]
  /\ ctxs = [j \in PreIds |-> EmptyCtx]
  /\ monitoring_tasks = [s \in Sessions |-> 0]
  /\ simplified_dialogs = [s \in Sessions |-> NoRec]
  /\ sm = [j \in PreIds |-> NewSm]
  /\ mon = [k \in PreIds |-> NewMon]
  /\ nh = [n \in NotifIds |-> NewNh]
  /\ ready = <<>>
  /\ waiters = [k \in PreIds |-> <<>>]
  /\ outbox = [preview |-> 0, full |-> 0]
  /\ pending_tool_operations = [key \in Sessions \X OpTools |-> NoOp]
  /\ th = [i \in OpIds |-> NewTh]
  /\ chat = <<>>
  /\ conn = [c \in ConnIds |-> NewConn]
  /\ store = NewStore
  /\ down = [pc |-> "running", listening |-> TRUE, cancelled |-> {}]
  /\ boot = [inst |-> [i \in Instances |-> "idle"], file |-> 0]
  /\ sweeps = 0
  /\ hashed = NewHashed
  /\ hook = NewHook
  /\ fan = NewFan
  /\ cb = NewCb
  /\ request_buckets = [u \in RateUsers |-> NoBucket]
  /\ rate_call = NoCall

\* steps of the program: the coroutine at the head of the ready queue runs
\* until its next await
RunPreToolUse ==
  \/ \E j \in PreIds : ProcessPreToolUse(j)
  \/ \E j \in PreIds : StartMonitoring(j)
  \/ \E j \in PreIds : StartMonitoringResume(j)

RunMonitor ==
  \/ \E k \in PreIds : MonitorStart(k)
  \/ \E k \in PreIds : MonitorCancelled(k)
  \/ \E k \in PreIds : MonitorAfterRead(k)
  \/ \E k \in PreIds : MonitorAfterSend(k)
  \/ \E k \in PreIds : MonitorAfterSleep(k)

MonitorIO ==
  \/ \E k \in PreIds, p \in PaneOptions : MonitorReadDone(k, p)
  \/ \E k \in PreIds, r \in {"ok", "fail"} : MonitorSendDone(k, r)
  \/ \E k \in PreIds : MonitorSleepDone(k)

RunNotification ==
  \/ \E n \in NotifIds : NotifStart(n)
  \/ \E n \in NotifIds : NotifResumeStop(n)
  \/ \E n \in NotifIds : NotifAfterPane(n)
  \/ \E n \in NotifIds : NotifResumeFull(n)
  \/ \E n \in NotifIds : NotifAfterSend(n)

NotificationIO ==
  \/ \E n \in NotifIds, p \in PaneOptions : NotifPaneDone(n, p)
  \/ \E n \in NotifIds, r \in {"ok", "fail"} : NotifSendDone(n, r)

\* the permission flow: tools start, notices arrive
NextPerm ==
  \/ \E s \in Sessions, inv \in Invocations : HookPreToolUse(s, inv)
  \/ \E s \in Sessions, m \in Messages : HookNotification(s, m)
  \/ RunPreToolUse
  \/ RunMonitor
  \/ MonitorIO
  \/ RunNotification
  \/ NotificationIO
  \/ CleanupOldSessions

SpecPerm == Init /\ [][NextPerm]_vars

\* the monitors alone: tools start, their monitors poll, detect, expire or are
\* cancelled by the next tool.  The event loop runs every coroutine that is
\* ready, and pane reads, sends and timers complete: some step of the program
\* or of its I/O is taken as long as one is possible.
PollProgress ==
  \/ RunPreToolUse
  \/ RunMonitor
  \/ \E k \in PreIds, p \in {0, VALID_OPTIONS} : MonitorReadDone(k, p)
  \/ \E k \in PreIds : MonitorSendDone(k, "ok")
  \/ \E k \in PreIds : MonitorSleepDone(k)

NextPoll ==
  \/ \E s \in Sessions : HookPreToolUse(s, [tool |-> "Bash", input |-> "ls"])
  \/ PollProgress

SpecPoll == Init /\ [][NextPoll]_vars /\ WF_vars(PollProgress)

\* monitors and one notice: tools of one kind start in a burst, then one
\* notice arrives; the pane shows no prompt or the usual one, Telegram answers
NextMon ==
  \/ \E s \in Sessions : HookPreToolUse(s, [tool |-> "Bash", input |-> "ls"])
  \/ \E s \in Sessions, m \in Messages : NoticeArrives(s, m)
  \/ RunPreToolUse
  \/ RunMonitor
  \/ \E k \in PreIds, p \in {0, VALID_OPTIONS} : MonitorReadDone(k, p)
  \/ \E k \in PreIds : MonitorSendDone(k, "ok")
  \/ \E k \in PreIds : MonitorSleepDone(k)
  \/ RunNotification
  \/ \E n \in NotifIds : NotifPaneDone(n, VALID_OPTIONS)
  \/ \E n \in NotifIds : NotifSendDone(n, "ok")

SpecMon == Init /\ [][NextMon]_vars

\* the MessageTracker: tool notifications of one session
RunTool ==
  \/ \E i \in OpIds : NotificationSilenced(i)
  \/ \E i \in OpIds : OtherMessageRun(i)
  \/ \E i \in OpIds : ToolStartedRun(i)
  \/ \E i \in OpIds : ToolFinishedRun(i)
  \/ \E i \in OpIds : ToolFinishedRetry(i)
  \/ \E i \in OpIds : AfterEdit(i)
  \/ \E i \in OpIds : AfterPartSend(i)
  \/ \E i \in OpIds : AfterPause(i)

ToolIO ==
  \/ \E i \in OpIds, r \in {"ok", "fail"} : PartSendDone(i, r)
  \/ \E i \in OpIds, r \in {"ok", "fail"} : EditDone(i, r)
  \/ \E i \in OpIds : SleepDone(i)

\* the texts tried: of Bash every length with and without a backtick, of Read
\* (whose text never reaches the tracker as a tool message) a short one
TextShapes(t) ==
  IF t = "Read" THEN {<<1, FALSE>>} ELSE (1..MaxParts) \X BOOLEAN

NextOps ==
  \/ \E s \in Sessions, t \in OpTools : \E sh \in TextShapes(t) :
       HookToolStarted(s, t, sh[1], sh[2])
  \/ \E s \in Sessions, t \in OpTools : \E sh \in TextShapes(t) :
       HookToolFinished(s, t, sh[1], sh[2])
  \/ RunTool
  \/ ToolIO

SpecOps == Init /\ [][NextOps]_vars

\* the socket boundary: hooks run, bytes travel, handle_client reads
NextIpc ==
  \/ \E script \in Scripts, s \in Sessions : HookRun(script, s)
  \/ \E c \in ConnIds, outcome \in {"nofile", "refused", "accepted"} :
       ClientConnect(c, outcome)
  \/ \E c \in ConnIds :
       \E payload \in RawPayloads \cup {conn[c].sent} :
         \E frags \in Fragments(payload) : ClientSend(c, payload, frags)
  \/ \E c \in ConnIds : Deliver(c)
  \/ \E c \in ConnIds : HandleClientRead(c)
  \/ \E c \in ConnIds : HandleClientReturn(c)
  \/ \E c \in ConnIds : ClientRecvDone(c)

SpecIpc == Init /\ [][NextIpc]_vars

\* the two maps under a stream of tool starts
NextStore ==
  \E s \in StoreSessions, listed \in BOOLEAN, dt \in {0, 1} :
    StoreToolStarted(s, listed, dt)

SpecStore == Init /\ [][NextStore]_vars

\* tools start, monitors poll, and the application shuts down
NextDown ==
  \/ \E s \in Sessions, inv \in Invocations : AcceptPreToolUse(s, inv)
  \/ RunPreToolUse
  \/ RunMonitor
  \/ MonitorIO
  \/ ShutdownBegin
  \/ ShutdownIntegration
  \/ ServerStop
  \/ \E timed_out \in BOOLEAN : ServerStopDone(timed_out)

SpecDown == Init /\ [][NextDown]_vars

\* instances start on one path, serve, and end
NextBoot ==
  \/ \E i \in Instances : StartCheck(i)
  \/ \E i \in Instances, failed \in BOOLEAN : StartProbed(i, failed)
  \/ \E i \in Instances : StartCwdDone(i)
  \/ \E i \in Instances : StartBind(i)
  \/ \E i \in Instances, killed \in BOOLEAN : InstanceEnds(i, killed)

SpecBoot == Init /\ [][NextBoot]_vars

\* ---- claims ----

\* C1: for one permission request (one ToolStarted, then one permission notice
\* handled with that tool's context) the chat never receives two
\* notifications: the preview and the authoritative dialog together are
\* delivered at most once.
C1_AtMostOneNotification ==
  (/\ Cardinality(Started) <= 1
   /\ Cardinality(Noticed) <= 1
   /\ \A n \in Noticed :
        /\ nh[n].message.permission
        /\ nh[n].pc # "arrived" => nh[n].ctx # 0)
  => outbox.preview + outbox.full <= 1

\* C2: a monitor that detected a prompt issued exactly one preview send and
\* stored a record with the fingerprint of its context; a permission notice
\* that arrives while the stored context still has the record's fingerprint
\* issues no send and deletes the record.
C2_PreviewThenSuppress ==
  /\ \A k \in PreIds :
       (mon[k].pc = "done" /\ mon[k].detected) => mon[k].sends = 1
  /\ \A n \in NotifIds :
       (nh[n].pc = "done" /\ nh[n].message.permission /\ nh[n].matched)
       => (nh[n].sends = 0 /\ nh[n].outcome = "skipped")

\* C3: a notice is suppressed as a duplicate only if the preview for the same
\* fingerprint was handed to the dispatcher and delivered.
C3_SuppressOnlyAfterPreview ==
  \A n \in NotifIds :
    (nh[n].message.permission /\ nh[n].outcome = "skipped") => nh[n].hadshown

\* C7: at every instant at most one monitoring task is polling for a session.
Polling(k) == mon[k].pc \notin {"none", "done"} /\ ~mon[k].cancel
C7_OneMonitorPerSession ==
  \A s \in Sessions :
    Cardinality({k \in PreIds : sm[k].session = s /\ Polling(k)}) <= 1

\* C8: once start_monitoring has run for a later ToolStarted of the session,
\* the task of an earlier one writes no record, and a record that exists
\* carries the fingerprint of the latest ToolStarted whose monitoring started.
LatestMonitored(s) ==
  Max({0} \cup {j \in PreIds : sm[j].session = s /\ mon[j].pc # "none"})
C8_NoStaleRecord ==
  /\ [][\A k \in PreIds :
          (/\ IsHead(MonId(k))
           /\ simplified_dialogs' # simplified_dialogs
           /\ simplified_dialogs'[sm[k].session] # NoRec)
          => ~(\E j \in PreIds :
                 j > k /\ sm[j].session = sm[k].session /\ mon[j].pc # "none")]_vars
  /\ [](\A s \in Sessions :
          (simplified_dialogs[s] # NoRec /\ LatestMonitored(s) # 0)
          => simplified_dialogs[s].context_hash =
               <<sm[LatestMonitored(s)].inv.tool, sm[LatestMonitored(s)].inv.input>>)

\* C9: a notice that says "waiting for your input" triggers no part of the
\* permission flow: no dialog is sent, no fingerprint is compared and no
\* record is deleted on its behalf.
C9_IdleNoticeIsInert ==
  \A n \in NotifIds :
    nh[n].message.waiting =>
      (nh[n].sends = 0 /\ nh[n].outcome \in {"none", "notice"})

\* C10: two permission notices of one session with the same fingerprint and no
\* ToolStarted between them, each with a well-formed dialog to show, cause
\* exactly one authoritative dialog in total.
C10_OneDialogForTwoNotices ==
  (/\ nh[1].pc = "done" /\ nh[2].pc = "done"
   /\ nh[1].session = nh[2].session
   /\ nh[1].message.permission /\ nh[2].message.permission
   /\ nh[1].fp = nh[2].fp
   /\ nh[1].ctx = nh[2].ctx
   /\ nh[1].outcome \in {"sent", "skipped"}
   /\ nh[2].outcome \in {"sent", "skipped"})
  => nh[1].sends + nh[2].sends = 1

C6_SecondSupersedes ==
  \A i, j \in OpIds :
    (/\ i < j
     /\ th[i].kind = "pre_tool_use" /\ th[j].kind = "pre_tool_use"
     /\ OperationKey(th[i]) = OperationKey(th[j])
     /\ th[i].pc = "done" /\ th[j].pc = "done"
     /\ th[i].last_id > 0 /\ th[j].last_id > 0
     /\ \A l \in OpIds : l > i /\ l # j => th[l].pc \in {"none", "arrived"})
    => /\ pending_tool_operations[OperationKey(th[j])].message_id = th[j].last_id
       /\ pending_tool_operations[OperationKey(th[j])].content =
            chat[th[j].last_id]

\* C11: the connection handler never waits for a pane read or for a send of
\* the dispatcher: a Notification handler that has not returned yet is not
\* suspended in _read_tmux_pane_content or in the send of a dialog.
C11_HandlerNeverAwaitsIO ==
  \A n \in NotifIds : nh[n].pc \notin {"pane", "a_send", "b_send"}

\* C15: a Monitoring task that parsed a non-empty option list with no
\* PermissionDialogRecord for its session never polls the pane again and never
\* sleeps for another interval: its poll count stays what it was and it is
\* either in the preview send or finished; the step that ends an uncancelled
\* preview send leaves the record stored.
C15_NoPollAfterDetection ==
  [][\A k \in PreIds :
       /\ mon[k].detected =>
            /\ mon'[k].check_count = mon[k].check_count
            /\ mon'[k].pc \in {"send", "done"}
       /\ (mon[k].pc = "send" /\ ~mon[k].cancel /\ mon'[k].pc = "done") =>
            simplified_dialogs'[sm[k].session] # NoRec]_vars

\* a monitor detected the prompt at its first poll, sent the preview, stored
\* the record and finished with polls of its window left
C15_Witness ==
  \E k \in PreIds :
    /\ mon[k].detected /\ mon[k].pc = "done" /\ ~mon[k].cancel
    /\ mon[k].sends = 1 /\ mon[k].check_count = 1 /\ mon[k].check_count < MaxChecks
    /\ simplified_dialogs[sm[k].session] # NoRec
    /\ simplified_dialogs[sm[k].session].shown

\* C12: no hook script waits for the server's reply without a timeout: a
\* script suspended in sock.recv has a timeout set on its socket.
C12_NoWaitWithoutTimeout ==
  \A c \in ConnIds : conn[c].cpc = "recv" => conn[c].timeout

\* C13: a connection whose payload is empty or is no JSON object is closed
\* with no side effects: process_hook_event changes nothing and spawns nothing
\* for it, and no step of its handler changes the usage map, the context
\* store, the PendingOperation map, the PermissionDialogRecord map, the
\* registered monitors or what the chat received.
C13_BadPayloadNoEffects ==
  [][\A c \in ConnIds :
       conn'[c].script = "raw" =>
         /\ conn'[c].effects = {}
         /\ conn'[c].hook_data.kind # "object"
         /\ conn'[c].spc # conn[c].spc =>
              UNCHANGED <<recent_tool_usage, recent_tool_context, ctxs,
                          pending_tool_operations, simplified_dialogs,
                          monitoring_tasks, outbox, chat>>]_vars

\* text that is no JSON was read and the connection closed, while the event
\* of a hook on another connection was processed
C13_Witness ==
  \E c, d \in ConnIds :
    /\ conn[c].script = "raw" /\ conn[c].sent = <<"garbage">>
    /\ conn[c].spc = "closed" /\ conn[c].effects = {}
    /\ conn[d].script = "pre_tool_use_hook" /\ conn[d].effects # {}
    /\ recent_tool_usage[conn[d].hook_data.value.session_id] # NoTime

\* C14: every connection that delivered a complete, parseable event was sent
\* the acknowledgment before it was closed.
C14_AckBeforeClose ==
  \A c \in ConnIds :
    (conn[c].spc = "closed" /\ conn[c].hook_data.kind = "object") =>
      conn[c].reply # <<>>

\* C20: whatever a hook script serialized is what the server dispatches: once
\* handle_client has read, the record given to process_hook_event serializes
\* to the bytes the hook sent, however the stream cut them.
C20_DispatchedEqualsSerialized ==
  \A c \in ConnIds :
    (conn[c].script \in HookUtilsScripts \cup RecvScripts
       /\ conn[c].spc \in {"processing", "closed"}) =>
      /\ conn[c].hook_data.kind = "object"
      /\ Serialize(conn[c].hook_data.value) = conn[c].sent

\* C17: after every ToolStarted both maps hold at most the capacity, the entry
\* just stored for the event's session is present with the event's timestamp
\* (in the context store when the tool is a listed one), and no evicted entry
\* is newer than an entry kept.
C17_CapacityNewestKept ==
  LET Keeps(items, out) ==
        /\ Len(items) <= StoreCap
        /\ \A e \in out : \A i \in 1..Len(items) :
             e.timestamp <= items[i].timestamp
      Has(items) ==
        \E i \in 1..Len(items) :
          items[i] = [key |-> store.session, timestamp |-> store.clock]
  IN  /\ Keeps(store.usage, store.out_usage)
      /\ Keeps(store.context, store.out_context)
      /\ store.session # "" => Has(store.usage)
      /\ (store.session # "" /\ store.listed) => Has(store.context)

\* a tool start for a new session found both maps full: an entry of each was
\* evicted, in the usage map one strictly older than the oldest entry kept
C17_Witness ==
  /\ store.out_usage # {} /\ store.out_context # {}
  /\ Len(store.usage) = StoreCap /\ Len(store.context) = StoreCap
  /\ store.usage[StoreCap].key = store.session
  /\ \E e \in store.out_usage : store.usage[1].timestamp > e.timestamp

\* C18: the listener has stopped accepting before stop() cancels any task,
\* and when shutdown is complete no Monitoring task is still running: every
\* monitor that was created has ended.
C18_ShutdownEndsMonitors ==
  /\ down.pc \in {"gather", "complete"} => ~down.listening
  /\ down.pc = "complete" => \A k \in PreIds : mon[k].pc \in {"none", "done"}

\* C19: of the instances started for one bind path at most one is serving.
C19_OneInstanceServes ==
  Cardinality({i \in Instances : boot.inst[i] = "serving"}) <= 1

\* the entry a finished post_tool handler found at its first lookup is still
\* in the map
Remains(i) ==
  LET op == pending_tool_operations[OperationKey(th[i])]
  IN  th[i].found_op # 0 /\ op # NoOp /\ op.content[1].msg = th[i].found_op

\* C21: when the processing of a ToolFinished has ended, the PendingOperation
\* it found for its key when it began is no longer in the map.
C21_FinishedConsumes ==
  \A i \in OpIds :
    (th[i].kind = "post_tool_use" /\ th[i].pc = "done") => ~Remains(i)

\* C22: a ToolFinished that found a PendingOperation it could not edit (the
\* edit failed, or the handle was still null or the entry gone after the one
\* retry) has sent exactly one fresh completion notification when its
\* processing ends, and no exception has left the handler.
C22_NoFinishedDropped ==
  \A i \in OpIds :
    (th[i].kind = "post_tool_use" /\ th[i].pc = "done"
       /\ th[i].found_op # 0 /\ th[i].edited # "ok")
    => (th[i].sends = 1 /\ ~th[i].raised)

\* a ToolStarted for the key of handler i has written its provisional entry,
\* and no other ToolFinished for the key has begun its processing
InsertedBefore(i) ==
  /\ \E j \in OpIds :
       /\ th[j].kind = "pre_tool_use" /\ th[j].purpose = "pre"
       /\ OperationKey(th[j]) = OperationKey(th[i])
  /\ \A k \in OpIds \ {i} :
       (th[k].kind = "post_tool_use" /\ OperationKey(th[k]) = OperationKey(th[i]))
       => th[k].pc \in {"none", "arrived"}

\* C23: a ToolFinished whose processing begins after a ToolStarted for the same
\* key wrote its provisional entry (no other ToolFinished for the key and no
\* expiry sweep in between) finds an entry at its lookup, whatever became of
\* the ToolStarted send.
C23_FinishedFindsEntry ==
  [][\A i \in OpIds :
       (/\ th[i].kind = "post_tool_use" /\ th[i].pc = "arrived"
        /\ MessageType(th[i]) = "post_tool"
        /\ th'[i].pc # "arrived"
        /\ InsertedBefore(i))
       => th'[i].found_id # -1]_vars

\* C24: when the handler of a ToolStarted issues its first outbound send, a
\* provisional PendingOperation with null handle is in the map under the
\* event's key, whatever the tool.
C24_ProvisionalBeforeFirstSend ==
  [][\A i \in OpIds :
       (/\ th[i].kind = "pre_tool_use" /\ th[i].pc = "arrived"
        /\ th'[i].pc = "send")
       => LET op == pending_tool_operations'[OperationKey(th[i])]
          IN  op # NoOp /\ op.message_id = 0]_vars

\* the notice carries the explicit permission phrase and no idle phrase
ExplicitPermission(n) ==
  nh[n].message.permission /\ ~nh[n].message.waiting

\* C25: when the handling of a permission request ends and the notice was not
\* suppressed as a duplicate of the preview (no record, or a record with
\* another fingerprint), the handler has issued exactly one send of the full
\* dialog and no PermissionDialogRecord is left for the session.
C25_FullDialogIssued ==
  [][\A n \in NotifIds :
       (/\ configured /\ ExplicitPermission(n)
        /\ nh[n].pc # "done" /\ nh'[n].pc = "done"
        /\ nh'[n].outcome # "skipped")
       => /\ nh'[n].sends = 1
          /\ simplified_dialogs'[nh[n].session] = NoRec]_vars

\* C26: once a notice for a session has been handled, none of the monitor
\* tasks of that session that existed when the notice arrived is still
\* running, whatever the notice said and however many monitors there were.
C26_NoticeEndsMonitors ==
  \A n \in NotifIds :
    nh[n].pc = "done" =>
      \A k \in nh[n].before :
        sm[k].session = nh[n].session => mon[k].pc = "done"

\* C27: a step that puts a PermissionDialogRecord into the map is a step of a
\* monitor task of that session that is not cancelled, has parsed a non-empty
\* option list and is in its detection branch; the step in which a cancelled
\* monitor task ends leaves the record map as it was.
C27_OnlyDetectedWrites ==
  [][/\ \A s \in Sessions :
          (simplified_dialogs'[s] # simplified_dialogs[s]
             /\ simplified_dialogs'[s] # NoRec)
          => \E k \in PreIds :
               /\ IsHead(MonId(k)) /\ sm[k].session = s
               /\ ~mon[k].cancel /\ mon[k].opts > 0
               /\ mon'[k].detected /\ mon'[k].pc = "done"
     /\ \A k \in PreIds :
          (mon[k].cancel /\ mon'[k].pc # mon[k].pc)
          => simplified_dialogs' = simplified_dialogs]_vars

\* a monitor task was cancelled while its preview send was in flight, and the
\* session has no record
C27_Witness ==
  \E k \in PreIds :
    /\ mon[k].pc = "done" /\ mon[k].cancel /\ mon[k].sends = 1
    /\ simplified_dialogs[sm[k].session] = NoRec

C29_ExpiryHasNoEffects ==
  [][\A k \in PreIds :
       (/\ IsHead(MonId(k)) /\ mon[k].pc = "sleep" /\ ~mon[k].cancel
        /\ mon'[k].pc = "done")
       => /\ simplified_dialogs' = simplified_dialogs
          /\ outbox' = outbox
          /\ \A s \in Sessions :
               monitoring_tasks[s] # k => monitoring_tasks'[s] = monitoring_tasks[s]]_vars

\* a ToolContext was stored for the session within the last 60 seconds
ContextStoredRecently(s) ==
  /\ recent_tool_context[s] # 0
  /\ now - ctxs[recent_tool_context[s]].timestamp <= RECENT_TOOL_WINDOW

\* C30: whatever the state, a notice with the idle phrase is not a permission
\* request, also when it has the permission phrase; else a notice with the
\* permission phrase is one; else it is one exactly when a ToolContext was
\* stored for the session within the last 60 seconds.
C30_ClassificationPrecedence ==
  \A s \in Sessions : \A w, p \in BOOLEAN :
    IsPermissionDialog(s, [permission |-> p, waiting |-> w, lastword |-> ""])
      = IF w THEN FALSE
        ELSE IF p THEN TRUE
        ELSE ContextStoredRecently(s)

\* C32: when process_hook_event has handled a PreToolUse, the context stored
\* for the session holds the tool name and the input of that event, whatever
\* the tool.
C32_ContextIsLatestToolStarted ==
  [][\A j \in PreIds :
       (sm[j].pc = "arrived" /\ sm'[j].pc # "arrived")
       => LET s == sm[j].session
          IN  /\ recent_tool_context'[s] # 0
              /\ ctxs'[recent_tool_context'[s]].tool_use = sm[j].inv.tool
              /\ ctxs'[recent_tool_context'[s]].tool_input = sm[j].inv.input]_vars

\* the provisional entry handler i wrote is in the map, still without a handle
OwnProvisional(i) ==
  LET op == pending_tool_operations[OperationKey(th[i])]
  IN  op # NoOp /\ op.message_id = 0 /\ op.content[1].msg = i

\* C33: when a part of a ToolStarted series fails to send, the handler sends
\* no further part, and its provisional PendingOperation stays in the map as
\* it is: not removed, and without a handle.
C33_FailedPartLeavesProvisional ==
  [][\A i \in OpIds :
       (/\ IsHead(ThId(i)) /\ th[i].kind = "pre_tool_use"
        /\ th[i].purpose = "pre" /\ th[i].pc = "sent" /\ th[i].res = "fail"
        /\ th'[i].pc # "sent")
       => /\ th'[i].pc = "done"
          /\ OwnProvisional(i) =>
               pending_tool_operations'[OperationKey(th[i])]
                 = pending_tool_operations[OperationKey(th[i])]]_vars

\* every part of the notification of handler j has reached the chat
SentInFull(j) ==
  \A p \in 1..Len(th[j].message) :
    \E h \in DOMAIN chat : chat[h][1].msg = j /\ chat[h][1].part = p

C40_SkipNeedsUserResponse ==
  [][\A n \in NotifIds :
       (nh[n].outcome # "skipped" /\ nh'[n].outcome = "skipped")
       => LET s == nh[n].session
              info == IF nh[n].pc = "b_await" THEN nh[n].info
                      ELSE simplified_dialogs[s]
          IN  /\ info # NoRec
              /\ nh'[n].fp = info.context_hash
              /\ info.user_responded]_vars


\* ---- ageing: the clock and the sweeps ----
\*
\* Hook events arrive one at a time, each after the work of the one before
\* has ended; between them the clock moves on, and the cleanup coroutine of
\* the PermissionMonitor wakes up from its asyncio.sleep(CLEANUP_INTERVAL).
AgeStep == 350
MaxAgeClock == 700
MaxSweeps == 2

\* no coroutine of the permission flow or of the tracker is in progress
Idle ==
  /\ Quiescent
  /\ \A i \in OpIds : th[i].pc \in {"none", "done"}

\* time passes while nothing happens
Elapse ==
  /\ Idle
  /\ now + AgeStep <= MaxAgeClock
  /\ now' = now + AgeStep
  /\ UNCHANGED <<ready, permVars, opsVars, auxVars>>

\* _run_periodic_cleanup wakes up: cleanup_old_sessions, nothing else
PeriodicCleanup ==
  /\ configured
  /\ sweeps < MaxSweeps
  /\ sweeps' = sweeps + 1
  /\ monitoring_tasks' = CleanupTasks(monitoring_tasks)
  /\ simplified_dialogs' = CleanupDialogs(simplified_dialogs)
  /\ UNCHANGED <<now, configured, recent_tool_usage, recent_tool_context,
                 ctxs, sm, mon, nh, ready, waiters, outbox>>
  /\ UNCHANGED <<opsVars, ipcVars, store, down, boot>>
  /\ UNCHANGED <<hashed, hook, fan, cb, request_buckets, rate_call>>

NextAge ==
  \/ \E s \in Sessions :
       Idle /\ HookPreToolUse(s, [tool |-> "Bash", input |-> "ls"])
  \/ \E s \in Sessions : Idle /\ HookToolStarted(s, "Bash", 1, FALSE)
  \/ \E j \in PreIds : ProcessPreToolUse(j)
  \/ \E j \in PreIds : StartMonitoring(j)
  \/ \E k \in PreIds : MonitorStart(k)
  \/ \E k \in PreIds : MonitorAfterRead(k)
  \/ \E k \in PreIds : MonitorAfterSend(k)
  \/ \E k \in PreIds : MonitorAfterSleep(k)
  \/ \E k \in PreIds, p \in {0, VALID_OPTIONS} : MonitorReadDone(k, p)
  \/ \E k \in PreIds, r \in {"ok", "fail"} : MonitorSendDone(k, r)
  \/ \E k \in PreIds : MonitorSleepDone(k)
  \/ \E i \in OpIds : ToolStartedRun(i)
  \/ \E i \in OpIds : AfterPartSend(i)
  \/ \E i \in OpIds, r \in {"ok", "fail"} : PartSendDone(i, r)
  \/ Elapse
  \/ PeriodicCleanup

SpecAge == Init /\ [][NextAge]_vars

\* an entry past its age is still stored
StalePendingOperation ==
  \E key \in OpKeys :
    /\ pending_tool_operations[key] # NoOp
    /\ now - pending_tool_operations[key].timestamp > OPERATION_MAX_AGE
StaleToolContext ==
  \E s \in Sessions :
    /\ recent_tool_context[s] # 0
    /\ now - ctxs[recent_tool_context[s]].timestamp > CONTEXT_MAX_AGE
StaleDialogRecord ==
  \E s \in Sessions :
    /\ simplified_dialogs[s] # NoRec
    /\ now - simplified_dialogs[s].timestamp > DIALOG_MAX_AGE

\* C35: the sweep driven by the periodic timer removes every stale entry: when
\* the cleanup coroutine has woken up, no PendingOperation older than 600 s,
\* no ToolContext older than 300 s and no PermissionDialogRecord older than
\* 300 s is left, without any hook event arriving.
C35_TimerSweepsStaleEntries ==
  [][sweeps' # sweeps
       => ~(StalePendingOperation \/ StaleToolContext \/ StaleDialogRecord)']_vars


\* ---- the token bucket of the RateLimiter ----
\*
\* Tokens are counted in whole tokens and time in whole seconds; the refill
\* rate is a whole number of tokens per second.
rate_limit_burst == 4
refill_rate == 1
MaxCost == 2
MaxRateClock == 3

Min(a, b) == IF a < b THEN a ELSE b

\* RateLimitBucket._refill
Refill(bucket) ==
  [tokens |-> Min(rate_limit_burst,
                  bucket.tokens + (now - bucket.last_update) * refill_rate),
   last_update |-> now]

\* RateLimitBucket.consume: the bucket afterwards and the value returned
Consume(bucket, tokens) ==
  LET b == Refill(bucket)
  IN  IF b.tokens >= tokens
      THEN [bucket |-> [b EXCEPT !.tokens = @ - tokens], ok |-> TRUE]
      ELSE [bucket |-> b, ok |-> FALSE]

\* RateLimiter._get_or_create_bucket
GetOrCreateBucket(user_id) ==
  IF request_buckets[user_id] = NoBucket
  THEN [tokens |-> rate_limit_burst, last_update |-> now]
  ELSE request_buckets[user_id]

\* RateLimiter._check_request_rate: consume; when refused, get_wait_time and
\* get_status refill once more each
CheckRequestRate(bucket, tokens) ==
  LET c == Consume(bucket, tokens)
  IN  IF c.ok THEN c
      ELSE [bucket |-> Refill(Refill(c.bucket)), ok |-> FALSE]

\* RateLimiter._consume_request_tokens: the result of consume is dropped
ConsumeRequestTokens(bucket, tokens) == Consume(bucket, tokens).bucket

\* RateLimiter.check_rate_limit, under the user's lock and without an await
CheckRateLimit(user_id, tokens) ==
  LET b0 == GetOrCreateBucket(user_id)
      c == CheckRequestRate(b0, tokens)
      b1 == IF c.ok THEN ConsumeRequestTokens(c.bucket, tokens) ELSE c.bucket
  IN  /\ request_buckets' = [request_buckets EXCEPT ![user_id] = b1]
      /\ rate_call' = [user_id |-> user_id, tokens |-> tokens, allowed |-> c.ok,
                       available |-> Refill(b0).tokens, left |-> b1.tokens]
      /\ UNCHANGED <<now, ready, permVars, opsVars, ipcVars, store, down, boot>>
      /\ UNCHANGED <<sweeps, hashed, hook, fan, cb>>

\* a second passes
RateTick ==
  /\ now < MaxRateClock
  /\ now' = now + 1
  /\ UNCHANGED <<ready, permVars, opsVars, auxVars>>

NextRate ==
  \/ \E u \in RateUsers, n \in 1..MaxCost : CheckRateLimit(u, n)
  \/ RateTick

SpecRate == Init /\ [][NextRate]_vars

\* C39: a check_rate_limit call that returns allowed leaves the bucket with
\* exactly n tokens fewer than it held when the call started, a call that
\* returns denied leaves it with as many, and a bucket never holds fewer
\* than 0 tokens or more than its capacity.
C39_AllowedDeductsExactlyN ==
  /\ rate_call.user_id # 0 =>
       rate_call.left = IF rate_call.allowed
                        THEN rate_call.available - rate_call.tokens
                        ELSE rate_call.available
  /\ \A u \in RateUsers :
       request_buckets[u] # NoBucket =>
         (0 <= request_buckets[u].tokens
          /\ request_buckets[u].tokens <= rate_limit_burst)


\* ---- handle_permission_callback ----
\*
\* The Application is built without concurrent_updates, so the update of one
\* button press is handled to its end before the next one is taken up.
cbRest == <<now, ready, permVars, opsVars, ipcVars, store, down, boot,
            sweeps, hashed, hook, fan, request_buckets, rate_call>>

\* _send_permission_dialog stores the dialog and sends the buttons
SendPermissionDialog(d) ==
  /\ d \notin cb.sent
  /\ cb' = [cb EXCEPT !.permission_dialogs = @ \cup {d}, !.sent = @ \cup {d}]
  /\ UNCHANGED cbRest

\* a button of dialog d is pressed: handle_permission_callback up to its
\* first await
CallbackStart(c, d) ==
  /\ cb.q[c].pc = "none"
  /\ \A i \in CbIds : i < c => cb.q[i].pc = "done"
  /\ d \in cb.sent
  /\ IF d \notin cb.permission_dialogs
     THEN cb' = [cb EXCEPT !.q[c] = [pc |-> "done", dialog_id |-> d,
                                     res |-> "none", answer |-> "expired"]]
     ELSE cb' = [cb EXCEPT !.q[c] = [pc |-> "inject", dialog_id |-> d,
                                     res |-> "none", answer |-> "none"]]
  /\ UNCHANGED cbRest

\* run_command returns or raises; _send_permission_response_to_claude
\* swallows the exception
InjectDone(c, r) ==
  /\ cb.q[c].pc = "inject"
  /\ cb' = [cb EXCEPT !.q[c].pc = "edit",
                      !.injected[cb.q[c].dialog_id] =
                         IF r = "ok" THEN @ + 1 ELSE @]
  /\ UNCHANGED cbRest

\* edit_message_text returns or raises; an exception ends the handler with
\* the answer "Error processing your selection." and the dialog still stored
CallbackEditDone(c, r) ==
  /\ cb.q[c].pc = "edit"
  /\ cb' = IF r = "ok"
           THEN [cb EXCEPT !.q[c].pc = "answer"]
           ELSE [cb EXCEPT !.q[c].pc = "done", !.q[c].answer = "error"]
  /\ UNCHANGED cbRest

\* callback_query.answer returns or raises; then the dialog is deleted
CallbackAnswerDone(c, r) ==
  /\ cb.q[c].pc = "answer"
  /\ cb' = IF r = "ok"
           THEN [cb EXCEPT !.q[c].pc = "done", !.q[c].answer = "selected",
                           !.permission_dialogs = @ \ {cb.q[c].dialog_id}]
           ELSE [cb EXCEPT !.q[c].pc = "done", !.q[c].answer = "error"]
  /\ UNCHANGED cbRest

NextCallbacks ==
  \/ \E d \in DialogIds : SendPermissionDialog(d)
  \/ \E c \in CbIds, d \in DialogIds : CallbackStart(c, d)
  \/ \E c \in CbIds, r \in {"ok", "fail"} : InjectDone(c, r)
  \/ \E c \in CbIds, r \in {"ok", "fail"} : CallbackEditDone(c, r)
  \/ \E c \in CbIds, r \in {"ok", "fail"} : CallbackAnswerDone(c, r)

SpecCallbacks == Init /\ [][NextCallbacks]_vars

\* C38: for each permission dialog at most one response is injected into the
\* agent's session, and every callback for a dialog after the first one is
\* answered as expired.
C38_OneResponsePerDialog ==
  /\ \A d \in DialogIds : cb.injected[d] <= 1
  /\ \A c1, c2 \in CbIds :
       (c1 < c2 /\ cb.q[c2].pc = "done"
          /\ cb.q[c1].dialog_id = cb.q[c2].dialog_id)
       => cb.q[c2].answer = "expired"


\* ---- tool notifications for several users ----
\*
\* _send_to_telegram awaits _handle_message_for_user for one user after the
\* other.  The ToolStarted and the ToolFinished notification are two tasks;
\* each step below is one of them resumed by the Telegram call or the sleep
\* it awaited, running to its next await.
fanRest == <<now, ready, permVars, opsVars, ipcVars, store, down, boot,
             sweeps, hashed, hook, cb, request_buckets, rate_call>>

\* the pre_tool branch for user u up to its bot.send_message: the entry is
\* registered under the key; after the last user the task ends
PreBegin(f, u) ==
  IF u > MaxUsers
  THEN [f EXCEPT !.pre = [pc |-> "done", user_id |-> 0]]
  ELSE [f EXCEPT !.ops = [user_id |-> u, message_id |-> 0, chat_id |-> u],
                 !.pre = [pc |-> "send", user_id |-> u]]

\* the post_tool branch for user u up to its first await
PostBegin(f, u) ==
  IF u > MaxUsers
  THEN [f EXCEPT !.post = [pc |-> "done", user_id |-> 0, chat_id |-> 0,
                           message_id |-> 0]]
  ELSE IF f.ops = NoFanOp
  THEN [f EXCEPT !.post = [pc |-> "fresh", user_id |-> u, chat_id |-> 0,
                           message_id |-> 0]]
  ELSE IF f.ops.message_id = 0
  THEN [f EXCEPT !.post = [pc |-> "wait", user_id |-> u, chat_id |-> 0,
                           message_id |-> 0]]
  ELSE [f EXCEPT !.post = [pc |-> "edit", user_id |-> u,
                           chat_id |-> f.ops.chat_id,
                           message_id |-> f.ops.message_id]]

\* the ToolStarted notification task starts
FanToolStarted ==
  /\ fan.pre.pc = "none"
  /\ fan' = PreBegin(fan, 1)
  /\ UNCHANGED fanRest

\* the send to the user returned: the entry, if still there, gets the handle;
\* a failed send pops the entry.  Then the next user's turn begins.
FanPreSent(r) ==
  /\ fan.pre.pc = "send"
  /\ LET u == fan.pre.user_id
         id == fan.last_id + 1
         f == IF r = "ok"
              THEN [fan EXCEPT !.last_id = id,
                               !.started[u] = id,
                               !.ops = IF fan.ops # NoFanOp
                                       THEN [fan.ops EXCEPT !.message_id = id]
                                       ELSE fan.ops]
              ELSE [fan EXCEPT !.ops = NoFanOp]
     IN  fan' = PreBegin(f, u + 1)
  /\ UNCHANGED fanRest

\* the ToolFinished notification task starts, after the ToolStarted one
FanToolFinished ==
  /\ fan.pre.pc # "none"
  /\ fan.post.pc = "none"
  /\ fan' = PostBegin(fan, 1)
  /\ UNCHANGED fanRest

\* asyncio.sleep(0.1) is over: the entry is fetched again; without a handle
\* nothing is sent to this user
FanPostWaited ==
  /\ fan.post.pc = "wait"
  /\ fan' = IF fan.ops # NoFanOp /\ fan.ops.message_id > 0
            THEN [fan EXCEPT !.post.pc = "edit",
                             !.post.chat_id = fan.ops.chat_id,
                             !.post.message_id = fan.ops.message_id]
            ELSE PostBegin(fan, fan.post.user_id + 1)
  /\ UNCHANGED fanRest

\* edit_message_text returned: the entry is removed; a failed edit is
\* followed by a fresh send to the user
FanPostEdited(r) ==
  /\ fan.post.pc = "edit"
  /\ fan' = IF r = "ok"
            THEN PostBegin([fan EXCEPT !.edits[fan.post.chat_id] = @ + 1,
                                       !.ops = NoFanOp],
                           fan.post.user_id + 1)
            ELSE [fan EXCEPT !.post.pc = "fresh"]
  /\ UNCHANGED fanRest

\* the fresh send of _send_new_message returned
FanPostFreshSent ==
  /\ fan.post.pc = "fresh"
  /\ fan' = PostBegin([fan EXCEPT !.fresh[fan.post.user_id] = @ + 1],
                      fan.post.user_id + 1)
  /\ UNCHANGED fanRest

NextFan ==
  \/ FanToolStarted
  \/ \E r \in {"ok", "fail"} : FanPreSent(r)
  \/ FanToolFinished
  \/ FanPostWaited
  \/ \E r \in {"ok", "fail"} : FanPostEdited(r)
  \/ FanPostFreshSent

SpecFan == Init /\ [][NextFan]_vars

\* C37: when both notifications of a pair have been delivered to all users,
\* every user has received exactly one completion: one edit of the message
\* sent to that user, or else one fresh send.
C37_OneCompletionPerUser ==
  (fan.pre.pc = "done" /\ fan.post.pc = "done")
  => \A u \in Users : fan.edits[u] + fan.fresh[u] = 1


\* ---- the working-directory filter ----
hookRest == <<sweeps, hashed, fan, cb, request_buckets, rate_call>>

\* the directories an event may report, the pane's directory being /proj
HookCwds == {NoCwd, <<"proj">>, <<"proj", "sub">>, <<"other">>, <<>>,
             <<"proj", "..", "other">>, <<"other", "..", "proj">>}
TargetCwds == {NoCwd, <<"proj">>}

\* os.path.normpath on an absolute path: a ".." removes the component before
\* it, and at the root it is dropped
RECURSIVE NormInto(_, _)
NormInto(done, rest) ==
  IF rest = <<>> THEN done
  ELSE IF Head(rest) = ".."
  THEN NormInto(IF done = <<>> THEN done ELSE SubSeq(done, 1, Len(done) - 1),
                Tail(rest))
  ELSE NormInto(Append(done, Head(rest)), Tail(rest))
Normpath(path) == NormInto(<<>>, path)

\* PurePath.relative_to does not raise ValueError
IsRelativeTo(path, other) ==
  Len(other) <= Len(path) /\ SubSeq(path, 1, Len(other)) = other

\* a filter that compares the paths as they were reported
HookIgnoredAsReported(h, hook_cwd) ==
  /\ h.filter_hooks_by_cwd
  /\ h.target_cwd # NoCwd
  /\ hook_cwd # NoCwd
  /\ ~IsRelativeTo(hook_cwd, h.target_cwd)

\* process_hook_event returns {"status": "ok", "continue": True} at once
HookIgnored(h, hook_cwd) ==
  /\ h.filter_hooks_by_cwd
  /\ h.target_cwd # NoCwd
  /\ hook_cwd # NoCwd
  /\ ~IsRelativeTo(Normpath(hook_cwd), Normpath(h.target_cwd))

\* the server starts: the setting is read, initialize_target_cwd asks tmux
\* for the pane's directory and may not get one
ServerConfigured(filter, target) ==
  /\ hook.pc = "unset"
  /\ hook' = [hook EXCEPT !.pc = "set", !.filter_hooks_by_cwd = filter,
                          !.target_cwd = target]
  /\ UNCHANGED <<now, ready, permVars, opsVars, ipcVars, store, down, boot>>
  /\ UNCHANGED hookRest

\* process_hook_event is called with a payload that reports hook_cwd; an
\* event that is let through arrives when the one before it has been dealt
\* with, an ignored one at any time
HookEventArrives(hook_event_name, hook_cwd, s) ==
  /\ hook.pc = "set"
  /\ LET e == [hook_event_name |-> hook_event_name, cwd |-> hook_cwd]
     IN  IF HookIgnored(hook, hook_cwd)
         THEN /\ hook.ignored < MaxIgnored
              /\ hook' = [hook EXCEPT !.last = e, !.seen = @ + 1,
                                      !.ignored = @ + 1]
              /\ UNCHANGED <<now, ready, permVars>>
         ELSE /\ Quiescent
              /\ hook' = [hook EXCEPT !.last = e, !.seen = @ + 1]
              /\ IF hook_event_name = "PreToolUse"
                 THEN ArrivePreToolUse(s, [tool |-> "Bash", input |-> "ls"])
                 ELSE ArriveNotification(s, [permission |-> TRUE,
                                             waiting |-> FALSE,
                                             lastword |-> "Bash"])
  /\ UNCHANGED <<opsVars, ipcVars, store, down, boot>>
  /\ UNCHANGED hookRest

NextCwd ==
  \/ \E filter \in BOOLEAN, target \in TargetCwds : ServerConfigured(filter, target)
  \/ \E t \in {"PreToolUse", "Notification"}, c \in HookCwds, s \in Sessions :
       HookEventArrives(t, c, s)
  \/ \E j \in PreIds : ProcessPreToolUse(j)
  \/ \E j \in PreIds : StartMonitoring(j)
  \/ \E k \in PreIds : MonitorStart(k)
  \/ \E k \in PreIds : MonitorAfterRead(k)
  \/ \E k \in PreIds : MonitorAfterSend(k)
  \/ \E k \in PreIds : MonitorAfterSleep(k)
  \/ \E k \in PreIds, p \in {0, VALID_OPTIONS} : MonitorReadDone(k, p)
  \/ \E k \in PreIds : MonitorSendDone(k, "ok")
  \/ \E k \in PreIds : MonitorSleepDone(k)
  \/ \E n \in NotifIds : NotifStart(n)
  \/ \E n \in NotifIds : NotifAfterPane(n)
  \/ \E n \in NotifIds : NotifAfterSend(n)
  \/ \E n \in NotifIds : NotifPaneDone(n, VALID_OPTIONS)
  \/ \E n \in NotifIds : NotifSendDone(n, "ok")

SpecCwd == Init /\ [][NextCwd]_vars


\* C36: with the filter enabled and a target directory known, an event whose
\* reported directory is neither the target nor below it changes nothing of
\* the permission flow or the tracker and schedules no work (it is only
\* acknowledged); an event from the target directory or below it is handed
\* to its branch.
C36_ForeignEventChangesNothing ==
  [][hook'.seen # hook.seen
       => LET cwd == hook'.last.cwd
              known == /\ hook.filter_hooks_by_cwd /\ hook.target_cwd # NoCwd
                       /\ cwd # NoCwd
              inside == IsRelativeTo(Normpath(cwd), Normpath(hook.target_cwd))
          IN  /\ (known /\ ~inside)
                   => /\ UNCHANGED <<now, ready, permVars, opsVars>>
                      /\ hook'.ignored = hook.ignored + 1
              /\ (known /\ inside)
                   => /\ ready' # ready
                      /\ hook'.ignored = hook.ignored]_vars

\* a monitor is polling when an event from /proj/../other has been ignored,
\* after the event that started the monitor was let through
C36_Witness ==
  /\ hook.filter_hooks_by_cwd /\ hook.target_cwd = <<"proj">>
  /\ hook.last.cwd = <<"proj", "..", "other">>
  /\ hook.ignored = 1 /\ hook.seen = 2
  /\ \E k \in PreIds : mon[k].pc = "read" /\ monitoring_tasks["s1"] = k


\* ---- _create_permission_context_hash on context dicts ----
hashRest == <<now, ready, permVars, opsVars, ipcVars, store, down, boot,
              sweeps, hook, fan, cb, request_buckets, rate_call>>

\* dict.get(key, default)
RECURSIVE Get(_, _, _)
Get(dict, key, default) ==
  IF dict = <<>> THEN default
  ELSE IF Head(dict)[1] = key THEN Head(dict)[2]
  ELSE Get(Tail(dict), key, default)

\* dict[key] = value: an existing key keeps its place
SetItem(dict, key, value) ==
  IF \E i \in DOMAIN dict : dict[i][1] = key
  THEN [i \in DOMAIN dict |-> IF dict[i][1] = key THEN <<key, value>> ELSE dict[i]]
  ELSE Append(dict, <<key, value>>)

\* the order of the keys as strings
KeyOrder == <<"command", "description", "input", "tool">>
KeyRank(key) == CHOOSE i \in DOMAIN KeyOrder : KeyOrder[i] = key

\* sorted(dict.items()) by key
RECURSIVE InsertByKey(_, _)
InsertByKey(pair, sorted) ==
  IF sorted = <<>> THEN <<pair>>
  ELSE IF KeyRank(pair[1]) < KeyRank(Head(sorted)[1])
  THEN <<pair>> \o sorted
  ELSE <<Head(sorted)>> \o InsertByKey(pair, Tail(sorted))
RECURSIVE SortItems(_)
SortItems(dict) ==
  IF dict = <<>> THEN <<>>
  ELSE InsertByKey(Head(dict), SortItems(Tail(dict)))

\* the text of a dict of strings: its items, one after the other
RECURSIVE DumpItems(_)
DumpItems(items) ==
  IF items = <<>> THEN <<>>
  ELSE <<Head(items)[1], ":", Head(items)[2], ",">> \o DumpItems(Tail(items))

\* json.dumps that writes the keys in insertion order
JsonDumpsUnsorted(context_data) ==
  <<"{">> \o <<"tool", ":", Get(context_data, "tool", "")>>
          \o <<"input", ":", "{">> \o DumpItems(Get(context_data, "input", <<>>))
          \o <<"}", "}">>

\* json.dumps(context_data, sort_keys=True) of {"tool": ..., "input": {...}}
JsonDumps(context_data) ==
  <<"{">> \o <<"input", ":", "{">>
          \o DumpItems(SortItems(Get(context_data, "input", <<>>)))
          \o <<"}", ",", "tool", ":", Get(context_data, "tool", ""), "}">>

\* hashlib.sha256(...).hexdigest(): different texts have different digests
Sha256(text) == <<"sha256", text>>

\* PermissionMonitor._create_permission_context_hash
ContextHash(context) ==
  Sha256(JsonDumps(<<<<"tool", Get(context, "tool_use", "")>>,
                     <<"input", Get(context, "tool_input", <<>>)>>>>))

\* what a PreToolUse may carry
HashTools == {"Bash", "Edit"}
HashInputs == { <<<<"command", "ls">>, <<"description", "d">>>>,
                <<<<"description", "d">>, <<"command", "ls">>>>,
                <<<<"command", "rm">>, <<"description", "d">>>>,
                <<<<"command", "ls">>>> }
HashTimes == {0, 1}

\* the PreToolUse branch stores a new context dict
HashToolStarted(tool, input, t) ==
  /\ Len(hashed.dicts) < MaxDicts
  /\ hashed' = [hashed EXCEPT
                  !.dicts = Append(@, <<<<"tool_use", tool>>,
                                        <<"tool_input", input>>,
                                        <<"timestamp", t>>>>),
                  !.stored = Len(hashed.dicts) + 1]
  /\ UNCHANGED hashRest

\* start_monitoring: the record is dropped, the new task gets the stored dict
HashStartMonitoring ==
  /\ hashed.stored # 0
  /\ hashed.monitored # hashed.stored
  /\ hashed' = [hashed EXCEPT !.monitored = hashed.stored, !.rec = NoHash]
  /\ UNCHANGED hashRest

\* the monitoring task detects the dialog and stores the hash of its dict
HashDetected ==
  /\ hashed.monitored # 0
  /\ hashed.rec = NoHash
  /\ hashed' = [hashed EXCEPT
                  !.rec = [context_hash |-> ContextHash(hashed.dicts[hashed.monitored]),
                           of |-> hashed.dicts[hashed.monitored],
                           dict |-> hashed.monitored]]
  /\ UNCHANGED hashRest

\* the Notification branch writes the options into the stored dict and
\* send_full_permission_dialog hashes it
HashNotice(options) ==
  /\ hashed.stored # 0
  /\ hashed.fp = NoHash
  /\ LET d == SetItem(hashed.dicts[hashed.stored], "permission_options", options)
     IN  hashed' = [hashed EXCEPT
                      !.dicts[hashed.stored] = d,
                      !.fp = [context_hash |-> ContextHash(d), of |-> d,
                              dict |-> hashed.stored]]
  /\ UNCHANGED hashRest

NextHash ==
  \/ \E tool \in HashTools, input \in HashInputs, t \in HashTimes :
       HashToolStarted(tool, input, t)
  \/ HashStartMonitoring
  \/ HashDetected
  \/ \E options \in {"2", "3"} : HashNotice(options)

SpecHash == Init /\ [][NextHash]_vars

\* the items of a dict, whatever their order
Items(dict) == {dict[i] : i \in DOMAIN dict}
SameRequest(a, b) ==
  /\ Get(a, "tool_use", "") = Get(b, "tool_use", "")
  /\ Items(Get(a, "tool_input", <<>>)) = Items(Get(b, "tool_input", <<>>))

\* C31: the hash stored at detection and the hash computed for the notice are
\* equal exactly when the two contexts have the same tool name and the same
\* tool input as a mapping, whatever their timestamps, added keys and key
\* order; hence they are equal when the notice hashes the dict the detection
\* hashed, no ToolStarted having replaced it.
C31_HashOfToolAndInputOnly ==
  (hashed.rec # NoHash /\ hashed.fp # NoHash)
  => /\ (hashed.rec.context_hash = hashed.fp.context_hash)
          <=> SameRequest(hashed.rec.of, hashed.fp.of)
     /\ hashed.rec.dict = hashed.fp.dict
          => hashed.rec.context_hash = hashed.fp.context_hash

\* two dicts that differ in timestamp, key order and the added options were
\* hashed to the same value
C31_Witness ==
  /\ hashed.rec # NoHash /\ hashed.fp # NoHash
  /\ hashed.rec.dict # hashed.fp.dict
  /\ hashed.rec.context_hash = hashed.fp.context_hash
  /\ Get(hashed.rec.of, "timestamp", 0) # Get(hashed.fp.of, "timestamp", 0)
  /\ Get(hashed.rec.of, "tool_input", <<>>) # Get(hashed.fp.of, "tool_input", <<>>)
  /\ Get(hashed.fp.of, "permission_options", "") # ""
  /\ Get(hashed.rec.of, "permission_options", "") = ""

====
